---- MODULE Spec2Model ----
(***************************************************************************)
(* A model of the grid preprocessing core of bores: the saturation         *)
(* equilibrium builder (src/src/bores/grids/saturation.py), the            *)
(* elevation/depth builder, the structural dip transform, coarsening,      *)
(* flattening, layering and padding (src/src/bores/grids/base.py), the     *)
(* elapsed-time properties and validate_state of src/src/bores/states.py   *)
(* and the type registrar of src/src/bores/serialization.py.  Each         *)
(* component has a specification of its own (SatSpec, ElevSpec, ...).      *)
(*                                                                         *)
(* Numbers.  The code computes in floating point.  The model computes in   *)
(* exact rational arithmetic: a number is a pair <<n, d>> with d > 0 in    *)
(* lowest terms.  Rounding is therefore not modelled, and "equal" here is  *)
(* what the spec calls "equal within floating tolerance".  The porosity    *)
(* grid, which the code tests with np.isfinite, may also hold the tokens   *)
(* NaN and Inf, and so may the grids given to the coarsening and           *)
(* flattening reductions; every other grid holds finite numbers.           *)
(*                                                                         *)
(* Grids.  A grid is a function from its cells to numbers.  The saturation *)
(* builder is elementwise, so its grids are modelled over a flat set of    *)
(* cells; the builders that walk along an axis index their cells <<i,j,k>>.*)
(***************************************************************************)
EXTENDS Integers, Sequences, FiniteSets

VARIABLES
    satArgs,         \* arguments of the build_saturation_grids call
    satResult,       \* what that call did: pending, raised, or returned grids
    thickness_grid,  \* the thickness grid given to the depth/elevation builders
    depth_out,       \* what build_depth_grid(thickness_grid) returned
    elevation_out,   \* what build_elevation_grid(thickness_grid) returned
    dipArgs,         \* arguments of the apply_structural_dip call
    dipResult,       \* what that call did: pending, raised, or returned a grid
    coarsenArgs,     \* arguments of the coarsen_grid call
    coarsenResult,   \* what that call did
    permArgs,        \* arguments of the coarsen_permeability_grids call
    permResult,      \* what that call did
    flattenArgs,     \* arguments of the flatten_multilayer_grid_to_surface call
    flattenResult,   \* what that call did
    layeredArgs,     \* arguments of the build_layered_grid call
    layeredResult,   \* what that call did
    padArgs,         \* the grid and pad width given to pad_grid and get_pad_mask
    padded,          \* what pad_grid returned
    unpadded,        \* what unpad_grid returned for the padded grid
    pad_mask,        \* what get_pad_mask returned
    modelState,      \* a ModelState: its time field and the constants it reads
    elapsed,         \* the elapsed-time properties read from it
    validateArgs,    \* arguments of the validate_state call
    validateResult,  \* what that call did
    registry,        \* the registry dict of a registrar: key -> class
    lock,            \* the thread that holds the registrar's lock, or None
    thread           \* per thread: where it is in its registrar(cls) call

satVars == <<satArgs, satResult>>
elevVars == <<thickness_grid, depth_out, elevation_out>>
dipVars == <<dipArgs, dipResult>>
coarsenVars == <<coarsenArgs, coarsenResult>>
permVars == <<permArgs, permResult>>
flattenVars == <<flattenArgs, flattenResult>>
layeredVars == <<layeredArgs, layeredResult>>
padVars == <<padArgs, padded, unpadded, pad_mask>>
\* The variables of the array utilities
timeVars == <<modelState, elapsed>>
validateVars == <<validateArgs, validateResult>>
registrarVars == <<registry, lock, thread>>

gridVars == <<coarsenVars, permVars, flattenVars, layeredVars, padVars>>
appVars == <<timeVars, validateVars, registrarVars>>
vars == <<satVars, elevVars, dipVars, gridVars, appVars>>

\* The value of a variable no call has set
None == <<>>

-----------------------------------------------------------------------------
(* Exact rational arithmetic standing for the code's float arithmetic.     *)

RECURSIVE Gcd(_, _)
Gcd(a, b) == IF b = 0 THEN a ELSE Gcd(b, a % b)

Abs(n) == IF n < 0 THEN -n ELSE n

\* The rational n/d in lowest terms with a positive denominator (d # 0).
R(n, d) ==
    LET g == Gcd(Abs(n), Abs(d))
        s == IF d < 0 THEN -1 ELSE 1
    IN  <<(s * n) \div g, (s * d) \div g>>

Zero == <<0, 1>>
One == <<1, 1>>

RAdd(x, y) == R(x[1] * y[2] + y[1] * x[2], x[2] * y[2])
RSub(x, y) == R(x[1] * y[2] - y[1] * x[2], x[2] * y[2])
RMul(x, y) == R(x[1] * y[1], x[2] * y[2])
RDiv(x, y) == R(x[1] * y[2], x[2] * y[1])
RLt(x, y) == x[1] * y[2] < y[1] * x[2]
RLe(x, y) == x[1] * y[2] <= y[1] * x[2]
RGt(x, y) == RLt(y, x)
RGe(x, y) == RLe(y, x)
Half(x) == R(x[1], 2 * x[2])

\* np.clip(x, lo, hi)
Clip(x, lo, hi) == IF RLt(x, lo) THEN lo ELSE IF RGt(x, hi) THEN hi ELSE x

\* np.power(x, n) for a natural exponent n
RECURSIVE Power(_, _)
Power(x, n) == IF n = 0 THEN One ELSE RMul(x, Power(x, n - 1))

\* The non-finite floats, written as the quotients 0/0 and 1/0
NaN == <<0, 0>>
Inf == <<1, 0>>

\* np.isfinite(p)
IsFinite(p) == p # NaN /\ p # Inf

\* p > 0 in IEEE arithmetic: false for NaN, true for +inf
GtZero(p) == IF p = NaN THEN FALSE ELSE IF p = Inf THEN TRUE ELSE RGt(p, Zero)

-----------------------------------------------------------------------------
(* Arrays in memory.  A caller-supplied array is the buffer named by its   *)
(* parameter.  A statement that assigns into an array (x[...] = v,         *)
(* x[...] -= v, out=x) writes the buffer the local x is bound to, and a    *)
(* call records, as a set of [buffer, cells], the buffers it wrote and     *)
(* what they hold when it ends.                                            *)

\* Variant of NewBuffer in which an array made from a source shares the
\* buffer of its source (sensitivity of C22)
NewBuffer_shared(local, source) == IF source = "" THEN local ELSE source

\* The buffer of a local bound by source.copy(), np.zeros_like(source),
\* np.zeros(shape), np.full(shape, value): a buffer of its own.  source is ""
\* when the array is made from no other array.
NewBuffer(local, source) == local

\* What a buffer holds after the call: what the call wrote to it, or what it
\* held
HeldAfter(buffer, original, written) ==
    IF \E w \in written : w.buffer = buffer
    THEN (CHOOSE w \in written : w.buffer = buffer).cells
    ELSE original

\* The arguments after the call: every array parameter holds what its buffer
\* holds, every other parameter its value
InputsAfter(a, arrays, written) ==
    [f \in DOMAIN a |-> IF f \in arrays THEN HeldAfter(f, a[f], written) ELSE a[f]]

-----------------------------------------------------------------------------
(* build_saturation_grids: src/src/bores/grids/saturation.py               *)

\* The cells of the call's grids (the shape of depth_grid)
CellsOf(a) == DOMAIN a.depth_grid

\* np.zeros_like(depth_grid)
zeros_like(grid) == [c \in DOMAIN grid |-> Zero]

\* grid[mask] = values[mask]
AssignWhere(grid, mask, values) ==
    [c \in DOMAIN grid |-> IF mask[c] THEN values[c] ELSE grid[c]]

\* np.any(mask)
AnyCell(mask) == \E c \in DOMAIN mask : mask[c]

\* Variant of active_mask without the np.isfinite test (sensitivity of C1)
active_mask_positive_only(porosity_grid) ==
    [c \in DOMAIN porosity_grid |-> GtZero(porosity_grid[c])]

\* active_mask = np.isfinite(porosity_grid) & (porosity_grid > 0)
active_mask(porosity_grid) ==
    [c \in DOMAIN porosity_grid |-> IsFinite(porosity_grid[c]) /\ GtZero(porosity_grid[c])]

\* Variant of OutOfRange that looks at every cell, active or not (sensitivity of C6)
OutOfRange_every_cell(grid, active) ==
    \E c \in DOMAIN active : RLt(grid[c], Zero) \/ RGt(grid[c], One)

\* np.any((grid[active] < 0) | (grid[active] > 1))
OutOfRange(grid, active) ==
    \E c \in DOMAIN active : active[c] /\ (RLt(grid[c], Zero) \/ RGt(grid[c], One))

\* Variant of SumExceedsOne that subtracts instead of adding (sensitivity of C2)
SumExceedsOne_difference(g1, g2, active) ==
    \E c \in DOMAIN active : active[c] /\ RGt(RSub(g1[c], g2[c]), One)

\* np.any((g1[active] + g2[active]) > 1.0)
SumExceedsOne(g1, g2, active) ==
    \E c \in DOMAIN active : active[c] /\ RGt(RAdd(g1[c], g2[c]), One)

\* c.MIN_OIL_ZONE_THICKNESS of bores.constants, "a configured minimum"
MIN_OIL_ZONE_THICKNESS == 3

gas_oil_contact_top(a) == RSub(a.gas_oil_contact, Half(a.gas_oil_transition_thickness))
gas_oil_contact_bottom(a) == RAdd(a.gas_oil_contact, Half(a.gas_oil_transition_thickness))
oil_water_contact_top(a) == RSub(a.oil_water_contact, Half(a.oil_water_transition_thickness))
oil_water_contact_bottom(a) == RAdd(a.oil_water_contact, Half(a.oil_water_transition_thickness))

\* Variant of ContactsOutOfOrder that accepts equal contacts (sensitivity of C5)
ContactsOutOfOrder_strict(a) == RGt(a.gas_oil_contact, a.oil_water_contact)

\* gas_oil_contact >= oil_water_contact
ContactsOutOfOrder(a) == RGe(a.gas_oil_contact, a.oil_water_contact)

\* not (depth_grid.shape == ... == porosity.shape)
ShapesDiffer(a) ==
    \E g \in {a.connate_water_saturation_grid, a.residual_oil_saturation_water_grid,
               a.residual_oil_saturation_gas_grid, a.residual_gas_saturation_grid,
               a.porosity_grid} : DOMAIN g # DOMAIN a.depth_grid

\* gas_oil_transition_thickness <= 0 or oil_water_transition_thickness <= 0
ThicknessNotPositive(a) ==
    RLe(a.gas_oil_transition_thickness, Zero) \/ RLe(a.oil_water_transition_thickness, Zero)

\* Variant of TransitionsOverlap that accepts touching bands (sensitivity of C7)
TransitionsOverlap_strict(a) == RGt(gas_oil_contact_bottom(a), oil_water_contact_top(a))

\* gas_oil_contact_bottom >= oil_water_contact_top
TransitionsOverlap(a) == RGe(gas_oil_contact_bottom(a), oil_water_contact_top(a))

\* The ValidationError _validate_inputs raises, "none" when it returns.  The
\* checks run in the order of the code and the first that fails raises.
ValidationErrorOf(a, active) ==
    IF ContactsOutOfOrder(a) THEN "contact_order"
    ELSE IF ShapesDiffer(a) THEN "shape"
    ELSE IF OutOfRange(a.connate_water_saturation_grid, active) THEN "swc_range"
    ELSE IF OutOfRange(a.residual_oil_saturation_water_grid, active) THEN "sor_water_range"
    ELSE IF OutOfRange(a.residual_oil_saturation_gas_grid, active) THEN "sor_gas_range"
    ELSE IF OutOfRange(a.residual_gas_saturation_grid, active) THEN "sgr_range"
    ELSE IF SumExceedsOne(a.connate_water_saturation_grid,
                          a.residual_oil_saturation_gas_grid, active) THEN "swc_sor_gas"
    ELSE IF SumExceedsOne(a.connate_water_saturation_grid,
                          a.residual_gas_saturation_grid, active) THEN "swc_sgr"
    ELSE IF SumExceedsOne(a.residual_oil_saturation_water_grid,
                          a.residual_gas_saturation_grid, active) THEN "sor_water_sgr"
    ELSE IF ~a.use_transition_zones THEN "none"
    ELSE IF ThicknessNotPositive(a) THEN "transition_thickness"
    ELSE IF a.transition_curvature_exponent <= 0 THEN "curvature_exponent"
    ELSE IF TransitionsOverlap(a) THEN "transition_overlap"
    ELSE "none"

\* np.any(residual_oil_saturation_gas[active] > residual_oil_saturation_water[active])
SorGasExceedsSorWater(a, active) ==
    \E c \in CellsOf(a) : active[c]
        /\ RGt(a.residual_oil_saturation_gas_grid[c], a.residual_oil_saturation_water_grid[c])

\* oil_water_contact - gas_oil_contact < c.MIN_OIL_ZONE_THICKNESS
OilColumnThin(a) ==
    RLt(RSub(a.oil_water_contact, a.gas_oil_contact), R(MIN_OIL_ZONE_THICKNESS, 1))

\* Variant of OilBetweenTransitionsThin that measures the whole oil column
\* (sensitivity of C8)
OilBetweenTransitionsThin_whole_column(a) ==
    RLt(RSub(a.oil_water_contact, a.gas_oil_contact), One)

\* oil_water_contact_top - gas_oil_contact_bottom < 1.0
OilBetweenTransitionsThin(a) ==
    RLt(RSub(oil_water_contact_top(a), gas_oil_contact_bottom(a)), One)

\* The UserWarnings _validate_inputs emits before it raises or returns: the
\* first two once the grid checks have passed, the third once all have.
WarningsOf(a, active) ==
    LET err == ValidationErrorOf(a, active)
        passedGrids == err \in {"none", "transition_thickness",
                                "curvature_exponent", "transition_overlap"}
    IN  (IF passedGrids /\ SorGasExceedsSorWater(a, active)
         THEN {"sor_gas_gt_sor_water"} ELSE {})
        \cup
        (IF passedGrids /\ OilColumnThin(a) THEN {"thin_oil_column"} ELSE {})
        \cup
        (IF err = "none" /\ a.use_transition_zones /\ OilBetweenTransitionsThin(a)
         THEN {"thin_oil_between_transitions"} ELSE {})

_validate_inputs(a, active) ==
    [error |-> ValidationErrorOf(a, active), warnings |-> WarningsOf(a, active)]

\* Three saturation grids
Grids(sw, so, sg) == [water_saturation |-> sw, oil_saturation |-> so, gas_saturation |-> sg]

\* Zone formulas, cell by cell
GasCapSg(a) == [c \in CellsOf(a) |-> RSub(RSub(One, a.residual_oil_saturation_gas_grid[c]),
                                     a.connate_water_saturation_grid[c])]
OilZoneSo(a) == [c \in CellsOf(a) |-> RSub(RSub(One, a.connate_water_saturation_grid[c]),
                                      a.residual_gas_saturation_grid[c])]
WaterZoneSw(a) == [c \in CellsOf(a) |-> RSub(One, a.residual_oil_saturation_water_grid[c])]

\* Variant of sharp_oil_zone that leaves out depth = GOC (sensitivity of C3)
sharp_oil_zone_open(a, active) ==
    [c \in CellsOf(a) |-> RGt(a.depth_grid[c], a.gas_oil_contact)
                     /\ RLt(a.depth_grid[c], a.oil_water_contact) /\ active[c]]

\* Zone masks of _build_sharp_contacts
sharp_gas_zone(a, active) ==
    [c \in CellsOf(a) |-> RLt(a.depth_grid[c], a.gas_oil_contact) /\ active[c]]
sharp_oil_zone(a, active) ==
    [c \in CellsOf(a) |-> RGe(a.depth_grid[c], a.gas_oil_contact)
                     /\ RLt(a.depth_grid[c], a.oil_water_contact) /\ active[c]]
sharp_water_zone(a, active) ==
    [c \in CellsOf(a) |-> RGe(a.depth_grid[c], a.oil_water_contact) /\ active[c]]

_build_sharp_contacts(a, g, active) ==
    LET gas_zone == sharp_gas_zone(a, active)
        oil_zone == sharp_oil_zone(a, active)
        water_zone == sharp_water_zone(a, active)
        \* Gas cap
        sg1 == AssignWhere(g.gas_saturation, gas_zone, GasCapSg(a))
        so1 == AssignWhere(g.oil_saturation, gas_zone, a.residual_oil_saturation_gas_grid)
        sw1 == AssignWhere(g.water_saturation, gas_zone, a.connate_water_saturation_grid)
        \* Oil zone
        so2 == AssignWhere(so1, oil_zone, OilZoneSo(a))
        sw2 == AssignWhere(sw1, oil_zone, a.connate_water_saturation_grid)
        sg2 == AssignWhere(sg1, oil_zone, a.residual_gas_saturation_grid)
        \* Water zone
        sw3 == AssignWhere(sw2, water_zone, WaterZoneSw(a))
        so3 == AssignWhere(so2, water_zone, a.residual_oil_saturation_water_grid)
        sg3 == AssignWhere(sg2, water_zone, zeros_like(a.depth_grid))
    IN  Grids(sw3, so3, sg3)

\* frac = np.clip((depth_grid[zone] - top) / thickness, 0.0, 1.0)
\* weight = np.power(frac, transition_curvature_exponent)
BlendWeight(depth, top, thickness, exponent) ==
    Power(Clip(RDiv(RSub(depth, top), thickness), Zero, One), exponent)

gas_oil_weight(a) ==
    [c \in CellsOf(a) |-> BlendWeight(a.depth_grid[c], gas_oil_contact_top(a),
                                 a.gas_oil_transition_thickness,
                                 a.transition_curvature_exponent)]
oil_water_weight(a) ==
    [c \in CellsOf(a) |-> BlendWeight(a.depth_grid[c], oil_water_contact_top(a),
                                 a.oil_water_transition_thickness,
                                 a.transition_curvature_exponent)]

\* Variant of Blend with the two weights exchanged (sensitivity of C4)
Blend_exchanged(from, to, weight) == RAdd(RMul(from, weight), RMul(to, RSub(One, weight)))

\* from * (1 - weight) + to * weight
Blend(from, to, weight) == RAdd(RMul(from, RSub(One, weight)), RMul(to, weight))

\* Gas-oil transition formulas
GasOilBandSg(a) ==
    [c \in CellsOf(a) |-> Blend(GasCapSg(a)[c], a.residual_gas_saturation_grid[c],
                           gas_oil_weight(a)[c])]
GasOilBandSo(a) ==
    [c \in CellsOf(a) |-> Blend(a.residual_oil_saturation_gas_grid[c], OilZoneSo(a)[c],
                           gas_oil_weight(a)[c])]

\* Oil-water transition formulas
OilWaterBandSw(a) ==
    [c \in CellsOf(a) |-> Blend(a.connate_water_saturation_grid[c], WaterZoneSw(a)[c],
                           oil_water_weight(a)[c])]
OilWaterBandSo(a) ==
    [c \in CellsOf(a) |-> Blend(OilZoneSo(a)[c], a.residual_oil_saturation_water_grid[c],
                           oil_water_weight(a)[c])]
OilWaterBandSg(a) ==
    [c \in CellsOf(a) |-> RMul(a.residual_gas_saturation_grid[c],
                          RSub(One, oil_water_weight(a)[c]))]

\* Zone masks of _build_transition_zones
gas_cap(a, active) ==
    [c \in CellsOf(a) |-> RLt(a.depth_grid[c], gas_oil_contact_top(a)) /\ active[c]]
gas_oil_zone(a, active) ==
    [c \in CellsOf(a) |-> RGe(a.depth_grid[c], gas_oil_contact_top(a))
                     /\ RLe(a.depth_grid[c], gas_oil_contact_bottom(a)) /\ active[c]]
\* Variant of oil_zone that takes the band edges as well (sensitivity of C28)
oil_zone_closed(a, active) ==
    [c \in CellsOf(a) |-> RGe(a.depth_grid[c], gas_oil_contact_bottom(a))
                     /\ RLe(a.depth_grid[c], oil_water_contact_top(a)) /\ active[c]]
oil_zone(a, active) ==
    [c \in CellsOf(a) |-> RGt(a.depth_grid[c], gas_oil_contact_bottom(a))
                     /\ RLt(a.depth_grid[c], oil_water_contact_top(a)) /\ active[c]]
oil_water_zone(a, active) ==
    [c \in CellsOf(a) |-> RGe(a.depth_grid[c], oil_water_contact_top(a))
                     /\ RLe(a.depth_grid[c], oil_water_contact_bottom(a)) /\ active[c]]
\* Variant of water_zone that holds no cell (sensitivity of C23)
water_zone_empty(a, active) == [c \in CellsOf(a) |-> FALSE]

water_zone(a, active) ==
    [c \in CellsOf(a) |-> RGt(a.depth_grid[c], oil_water_contact_bottom(a)) /\ active[c]]

_build_transition_zones(a, g, active) ==
    LET gc == gas_cap(a, active)
        goz == gas_oil_zone(a, active)
        oz == oil_zone(a, active)
        owz == oil_water_zone(a, active)
        wz == water_zone(a, active)
        \* Gas cap
        sg1 == AssignWhere(g.gas_saturation, gc, GasCapSg(a))
        so1 == AssignWhere(g.oil_saturation, gc, a.residual_oil_saturation_gas_grid)
        sw1 == AssignWhere(g.water_saturation, gc, a.connate_water_saturation_grid)
        \* Gas-oil transition
        sg2 == IF AnyCell(goz) THEN AssignWhere(sg1, goz, GasOilBandSg(a)) ELSE sg1
        so2 == IF AnyCell(goz) THEN AssignWhere(so1, goz, GasOilBandSo(a)) ELSE so1
        sw2 == IF AnyCell(goz)
               THEN AssignWhere(sw1, goz, a.connate_water_saturation_grid) ELSE sw1
        \* Oil zone
        so3 == AssignWhere(so2, oz, OilZoneSo(a))
        sw3 == AssignWhere(sw2, oz, a.connate_water_saturation_grid)
        sg3 == AssignWhere(sg2, oz, a.residual_gas_saturation_grid)
        \* Oil-water transition
        sw4 == IF AnyCell(owz) THEN AssignWhere(sw3, owz, OilWaterBandSw(a)) ELSE sw3
        so4 == IF AnyCell(owz) THEN AssignWhere(so3, owz, OilWaterBandSo(a)) ELSE so3
        sg4 == IF AnyCell(owz) THEN AssignWhere(sg3, owz, OilWaterBandSg(a)) ELSE sg3
        \* Water zone
        sw5 == AssignWhere(sw4, wz, WaterZoneSw(a))
        so5 == AssignWhere(so4, wz, a.residual_oil_saturation_water_grid)
        sg5 == AssignWhere(sg4, wz, zeros_like(a.depth_grid))
    IN  Grids(sw5, so5, sg5)

_normalize_saturations(g, active) ==
    LET total == [c \in DOMAIN active |-> RAdd(RAdd(g.water_saturation[c], g.oil_saturation[c]),
                                       g.gas_saturation[c])]
        valid == [c \in DOMAIN active |-> active[c] /\ RGt(total[c], Zero)]
        Norm(grid) == [c \in DOMAIN active |->
                          IF ~active[c] THEN Zero
                          ELSE IF valid[c] THEN RDiv(grid[c], total[c])
                          ELSE grid[c]]
    IN  Grids(Norm(g.water_saturation), Norm(g.oil_saturation), Norm(g.gas_saturation))

\* What a call with arguments a does: it raises (after the warnings emitted so
\* far) or returns the normalized grids.
build_saturation_grids(a) ==
    LET active == active_mask(a.porosity_grid)
        v == _validate_inputs(a, active)
        zeros == Grids(zeros_like(a.depth_grid), zeros_like(a.depth_grid),
                       zeros_like(a.depth_grid))
        built == IF ~a.use_transition_zones
                 THEN _build_sharp_contacts(a, zeros, active)
                 ELSE _build_transition_zones(a, zeros, active)
    IN  IF v.error # "none"
        THEN [status |-> "raised", exception |-> "ValidationError",
              error |-> v.error, warnings |-> v.warnings, grids |-> None]
        ELSE [status |-> "returned", exception |-> "none", error |-> "none",
              warnings |-> v.warnings,
              grids |-> _normalize_saturations(built, active)]

-----------------------------------------------------------------------------
(* The calls the model makes.  A call is drawn from four families of       *)
(* arguments; the depths are chosen so that cells fall above, on, between  *)
(* and below the contacts and on the edges and in the middle of the bands. *)

MaxDepth == 8
MaxThickness == 2
MaxExponent == 2

OneCell == {1}
TwoCells == {1, 2}

DepthValues == {R(d, 1) : d \in 0..MaxDepth}
Quarter == R(1, 4)
\* endpoint saturations inside [0, 1]
SaturationValues == {Zero, Quarter, R(3, 4)}
\* endpoint saturations below, inside, at the top of, and above [0, 1]
EndpointValues == {R(-1, 4), Quarter, One, R(3, 2)}
PorosityValues == {NaN, Inf, Zero, R(1, 5)}

\* Zones: one active cell at every depth, every in-range endpoint
\* combination, contacts in order, positive transition parameters.
ZoneCalls ==
    [depth_grid : [OneCell -> DepthValues],
     gas_oil_contact : {R(2, 1)},
     oil_water_contact : {R(4, 1), R(6, 1)},
     connate_water_saturation_grid : [OneCell -> SaturationValues],
     residual_oil_saturation_water_grid : [OneCell -> SaturationValues],
     residual_oil_saturation_gas_grid : [OneCell -> SaturationValues],
     residual_gas_saturation_grid : [OneCell -> SaturationValues],
     porosity_grid : [OneCell -> {R(1, 5)}],
     use_transition_zones : BOOLEAN,
     gas_oil_transition_thickness : {R(h, 1) : h \in 1..MaxThickness},
     oil_water_transition_thickness : {R(h, 1) : h \in 1..MaxThickness},
     transition_curvature_exponent : 1..MaxExponent]

\* Parameters: every contact order and every transition parameter, zero
\* included, over one active cell with valid endpoints.
ParameterCalls ==
    [depth_grid : [OneCell -> DepthValues],
     gas_oil_contact : {R(2, 1), R(6, 1)},
     oil_water_contact : {R(4, 1), R(6, 1)},
     connate_water_saturation_grid : [OneCell -> {Quarter}],
     residual_oil_saturation_water_grid : [OneCell -> {Quarter}],
     residual_oil_saturation_gas_grid : [OneCell -> {Quarter, R(3, 4)}],
     residual_gas_saturation_grid : [OneCell -> {Quarter}],
     porosity_grid : [OneCell -> {R(1, 5)}],
     use_transition_zones : BOOLEAN,
     gas_oil_transition_thickness : {R(h, 1) : h \in 0..MaxThickness},
     oil_water_transition_thickness : {R(h, 1) : h \in 0..MaxThickness},
     transition_curvature_exponent : 0..MaxExponent]

\* Endpoints: two cells, active or not; cell 1 takes every endpoint
\* combination, in range or not, and cell 2 one value in all four grids.
EndpointCalls ==
    {[depth_grid |-> d,
      gas_oil_contact |-> R(2, 1),
      oil_water_contact |-> R(6, 1),
      connate_water_saturation_grid |-> [c \in TwoCells |-> IF c = 1 THEN e[1] ELSE v],
      residual_oil_saturation_water_grid |-> [c \in TwoCells |-> IF c = 1 THEN e[2] ELSE v],
      residual_oil_saturation_gas_grid |-> [c \in TwoCells |-> IF c = 1 THEN e[3] ELSE v],
      residual_gas_saturation_grid |-> [c \in TwoCells |-> IF c = 1 THEN e[4] ELSE v],
      porosity_grid |-> p,
      use_transition_zones |-> m,
      gas_oil_transition_thickness |-> R(2, 1),
      oil_water_transition_thickness |-> R(2, 1),
      transition_curvature_exponent |-> 2] :
        d \in {<<R(2, 1), R(6, 1)>>, <<R(7, 1), Zero>>},
        e \in [1..4 -> EndpointValues],
        v \in EndpointValues,
        p \in [TwoCells -> PorosityValues] \ {q \in [TwoCells -> PorosityValues] :
                                                q[2] \in {Inf, Zero}},
        m \in BOOLEAN}

\* Shapes: a porosity grid of another shape than the depth grid
ShapeCalls ==
    [depth_grid : [TwoCells -> {R(3, 1)}],
     gas_oil_contact : {R(2, 1), R(6, 1)},
     oil_water_contact : {R(6, 1)},
     connate_water_saturation_grid : [TwoCells -> {Quarter}],
     residual_oil_saturation_water_grid : [TwoCells -> {Quarter}],
     residual_oil_saturation_gas_grid : [TwoCells -> {Quarter}],
     residual_gas_saturation_grid : [TwoCells -> {Quarter}],
     porosity_grid : [OneCell -> {R(1, 5)}],
     use_transition_zones : BOOLEAN,
     gas_oil_transition_thickness : {R(2, 1)},
     oil_water_transition_thickness : {R(2, 1)},
     transition_curvature_exponent : {2}]

Pending ==
    [status |-> "pending", exception |-> "none", error |-> "none", warnings |-> {},
     grids |-> None]

SatIdle == satArgs = None /\ satResult = None

InitSat ==
    /\ satArgs \in ZoneCalls \cup ParameterCalls \cup EndpointCalls \cup ShapeCalls
    /\ satResult = Pending

SatArrays ==
    {"depth_grid", "connate_water_saturation_grid",
     "residual_oil_saturation_water_grid", "residual_oil_saturation_gas_grid",
     "residual_gas_saturation_grid", "porosity_grid"}

\* The three arrays made by np.zeros_like(depth_grid, dtype=dtype), which the
\* zone builders and the normalization assign into
SatWritten(result) ==
    IF result.status # "returned" THEN {}
    ELSE {[buffer |-> NewBuffer(local, "depth_grid"), cells |-> result.grids[local]] :
              local \in {"water_saturation", "oil_saturation", "gas_saturation"}}

\* One call of build_saturation_grids
BuildSaturationGrids ==
    /\ satArgs # None
    /\ satResult.status = "pending"
    /\ satResult' = build_saturation_grids(satArgs)
    /\ satArgs' = InputsAfter(satArgs, SatArrays, SatWritten(satResult'))
    /\ UNCHANGED <<elevVars, dipVars, gridVars, appVars>>

-----------------------------------------------------------------------------
(* build_depth_grid, build_elevation_grid: src/src/bores/grids/base.py     *)
(* A 3-D grid is a function on the index triples <<i, j, k>>, from 0.      *)

Idx(nx, ny, nz) == (0..(nx - 1)) \X (0..(ny - 1)) \X (0..(nz - 1))

\* grid.shape[axis], axis 1, 2 or 3
Extent(grid, axis) == Cardinality({x[axis] : x \in DOMAIN grid})

\* Variant of DownwardAt that starts from the bottom of the top layer, not
\* from its centre (sensitivity of C29)
RECURSIVE DownwardAt_from_layer_bottom(_, _, _, _)
DownwardAt_from_layer_bottom(t, i, j, k) ==
    IF k = 0 THEN t[<<i, j, 0>>]
    ELSE RAdd(RAdd(DownwardAt_from_layer_bottom(t, i, j, k - 1), Half(t[<<i, j, k - 1>>])),
              Half(t[<<i, j, k>>]))

\* elevation_grid[i, j, k] of _compute_elevation_downward: the scan from the top
RECURSIVE DownwardAt(_, _, _, _)
DownwardAt(t, i, j, k) ==
    IF k = 0 THEN Half(t[<<i, j, 0>>])
    ELSE RAdd(RAdd(DownwardAt(t, i, j, k - 1), Half(t[<<i, j, k - 1>>])),
              Half(t[<<i, j, k>>]))

_compute_elevation_downward(t) ==
    [x \in DOMAIN t |-> DownwardAt(t, x[1], x[2], x[3])]

\* Variant of UpwardAt that adds the half thickness of the layer below twice
\* and never that of the layer itself (sensitivity of C9)
RECURSIVE UpwardAt_below_twice(_, _, _, _)
UpwardAt_below_twice(t, i, j, k) ==
    IF k = Extent(t, 3) - 1 THEN Half(t[<<i, j, k>>])
    ELSE RAdd(RAdd(UpwardAt_below_twice(t, i, j, k + 1), Half(t[<<i, j, k + 1>>])),
              Half(t[<<i, j, k + 1>>]))

\* elevation_grid[i, j, k] of _compute_elevation_upward: the scan from the bottom
RECURSIVE UpwardAt(_, _, _, _)
UpwardAt(t, i, j, k) ==
    IF k = Extent(t, 3) - 1 THEN Half(t[<<i, j, k>>])
    ELSE RAdd(RAdd(UpwardAt(t, i, j, k + 1), Half(t[<<i, j, k + 1>>])),
              Half(t[<<i, j, k>>]))

_compute_elevation_upward(t) ==
    [x \in DOMAIN t |-> UpwardAt(t, x[1], x[2], x[3])]

\* The public wrappers only pass "downward" or "upward", so the ValidationError
\* for another direction cannot be raised through them.
_build_elevation_grid(t, direction) ==
    IF direction = "downward" THEN _compute_elevation_downward(t)
    ELSE _compute_elevation_upward(t)

build_elevation_grid(t) == _build_elevation_grid(t, "upward")
build_depth_grid(t) == _build_elevation_grid(t, "downward")

MaxLayers == 3

LayerThicknesses == {Zero, One, R(3, 1)}

ThicknessGrids ==
    UNION {[Idx(1, ny, nz) -> LayerThicknesses] : ny \in 1..2, nz \in 1..MaxLayers}

ElevIdle == thickness_grid = None /\ depth_out = None /\ elevation_out = None

InitElev ==
    /\ thickness_grid \in ThicknessGrids
    /\ depth_out = None
    /\ elevation_out = None

\* One call of build_depth_grid
BuildDepthGrid ==
    /\ depth_out = None
    /\ depth_out' = build_depth_grid(thickness_grid)
    /\ UNCHANGED <<thickness_grid, elevation_out, satVars, dipVars, gridVars, appVars>>

\* One call of build_elevation_grid
BuildElevationGrid ==
    /\ elevation_out = None
    /\ elevation_out' = build_elevation_grid(thickness_grid)
    /\ UNCHANGED <<thickness_grid, depth_out, satVars, dipVars, gridVars, appVars>>

-----------------------------------------------------------------------------
(* apply_structural_dip: src/src/bores/grids/base.py                       *)
(* Angles are whole degrees.  The trigonometric functions are tabulated at *)
(* the angles the model uses, where their values are rational: 37 and 27   *)
(* degrees stand for atan(3/4) = 36.87 and atan(1/2) = 26.57 degrees.      *)

\* np.sin(np.radians(azimuth))
Sin(deg) ==
    CASE deg = 0 -> Zero [] deg = 37 -> R(3, 5) [] deg = 90 -> One
      [] deg = 180 -> Zero [] deg = 270 -> R(-1, 1)

\* np.cos(np.radians(azimuth))
Cos(deg) ==
    CASE deg = 0 -> One [] deg = 37 -> R(4, 5) [] deg = 90 -> Zero
      [] deg = 180 -> R(-1, 1) [] deg = 270 -> Zero

\* np.tan(np.radians(angle))
Tan(deg) == CASE deg = 0 -> Zero [] deg = 27 -> R(1, 2) [] deg = 45 -> One

\* Variant of dip_offset that leaves out the factor tan(dip_angle)
\* (sensitivity of C10)
dip_offset_without_tan(i, j, cell_dimensions, dip_components) ==
    LET x_distance == RMul(R(i, 1), cell_dimensions[1])
        y_distance == RMul(R(j, 1), cell_dimensions[2])
    IN  RAdd(RMul(x_distance, dip_components[1]), RMul(y_distance, dip_components[2]))

\* dip_offset of column (i, j)
dip_offset(i, j, cell_dimensions, dip_components) ==
    LET x_distance == RMul(R(i, 1), cell_dimensions[1])
        y_distance == RMul(R(j, 1), cell_dimensions[2])
        distance_along_dip == RAdd(RMul(x_distance, dip_components[1]),
                                   RMul(y_distance, dip_components[2]))
    IN  RMul(distance_along_dip, dip_components[3])

\* Variant of _apply_dip_upward that adds the offset, as the downward
\* convention does (sensitivity of C11)
_apply_dip_upward_adds(grid, cell_dimensions, dip_components) ==
    [x \in DOMAIN grid |->
        RAdd(grid[x], dip_offset(x[1], x[2], cell_dimensions, dip_components))]

\* dipped_elevation_grid[i, j, :] -= dip_offset
_apply_dip_upward(grid, cell_dimensions, dip_components) ==
    [x \in DOMAIN grid |->
        RSub(grid[x], dip_offset(x[1], x[2], cell_dimensions, dip_components))]

\* dipped_elevation_grid[i, j, :] += dip_offset
_apply_dip_downward(grid, cell_dimensions, dip_components) ==
    [x \in DOMAIN grid |->
        RAdd(grid[x], dip_offset(x[1], x[2], cell_dimensions, dip_components))]

\* The ValidationError apply_structural_dip raises, "none" when it raises none
DipErrorOf(a) ==
    IF a.elevation_direction \notin {"downward", "upward"} THEN "elevation_direction"
    ELSE IF ~(0 <= a.dip_angle /\ a.dip_angle <= 90) THEN "dip_angle"
    ELSE IF ~(0 <= a.dip_azimuth /\ a.dip_azimuth < 360) THEN "dip_azimuth"
    ELSE "none"

apply_structural_dip(a) ==
    LET dip_components == <<Sin(a.dip_azimuth), Cos(a.dip_azimuth), Tan(a.dip_angle)>>
    IN  IF DipErrorOf(a) # "none"
        THEN [status |-> "raised", exception |-> "ValidationError",
              error |-> DipErrorOf(a), grid |-> None]
        ELSE [status |-> "returned", exception |-> "none", error |-> "none",
              grid |-> IF a.elevation_direction = "upward"
                       THEN _apply_dip_upward(a.elevation_grid, a.cell_dimension,
                                              dip_components)
                       ELSE _apply_dip_downward(a.elevation_grid, a.cell_dimension,
                                                dip_components)]

MaxCellSize == 2

ElevationValues == {One, R(5, 2)}
DipGrids ==
    [Idx(2, 2, 1) -> ElevationValues] \cup [Idx(1, 2, 2) -> ElevationValues]
        \cup [Idx(2, 1, 2) -> ElevationValues]
DipAngles == {0, 27, 45, 91}
DipAzimuths == {0, 37, 90, 180, 270, 360}

DipCalls ==
    [elevation_grid : DipGrids,
     cell_dimension : {<<R(x, 1), R(y, 1)>> : x, y \in 1..MaxCellSize},
     elevation_direction : {"downward", "upward", "sideways"},
     dip_angle : DipAngles,
     dip_azimuth : DipAzimuths]

DipIdle == dipArgs = None /\ dipResult = None

InitDip ==
    /\ dipArgs \in DipCalls
    /\ dipResult = [status |-> "pending", exception |-> "none", error |-> "none",
                    grid |-> None]

\* dipped_elevation_grid = elevation_grid.copy(), which the kernels change
\* in place with -= and +=
DipWritten(result) ==
    IF result.status # "returned" THEN {}
    ELSE {[buffer |-> NewBuffer("dipped_elevation_grid", "elevation_grid"),
           cells |-> result.grid]}

\* One call of apply_structural_dip
ApplyStructuralDip ==
    /\ dipArgs # None
    /\ dipResult.status = "pending"
    /\ dipResult' = apply_structural_dip(dipArgs)
    /\ dipArgs' = InputsAfter(dipArgs, {"elevation_grid"}, DipWritten(dipResult'))
    /\ UNCHANGED <<satVars, elevVars, gridVars, appVars>>

-----------------------------------------------------------------------------
(* Arrays of any rank.  An array is a function on its index tuples, each   *)
(* index counted from 0; the functions below recover rank and shape from   *)
(* the index set, as the elevation builders do with Extent.                *)

TimeIdle == modelState = None /\ elapsed = None
ValidateIdle == validateArgs = None /\ validateResult = None
RegistrarIdle == registry = None /\ lock = None /\ thread = None
\* No ModelState was made and no registrar was called
AppIdle == TimeIdle /\ ValidateIdle /\ RegistrarIdle

CoarsenIdle == coarsenArgs = None /\ coarsenResult = None
PermIdle == permArgs = None /\ permResult = None
FlattenIdle == flattenArgs = None /\ flattenResult = None
LayeredIdle == layeredArgs = None /\ layeredResult = None
PadIdle == padArgs = None /\ padded = None /\ unpadded = None /\ pad_mask = None

\* data.ndim
Rank(data) == Len(CHOOSE x \in DOMAIN data : TRUE)

\* data.shape
ShapeOf(data) == [a \in 1..Rank(data) |-> Extent(data, a)]

\* The index tuples of an array of the given shape (rank 1, 2 or 3)
Indices(shape) ==
    CASE Len(shape) = 1 -> {<<i>> : i \in 0..(shape[1] - 1)}
      [] Len(shape) = 2 -> (0..(shape[1] - 1)) \X (0..(shape[2] - 1))
      [] Len(shape) = 3 -> (0..(shape[1] - 1)) \X (0..(shape[2] - 1)) \X (0..(shape[3] - 1))

\* np.isnan(x)
IsNaN(x) == x = NaN

\* x + y in IEEE arithmetic on the values the model uses: NaN is absorbing,
\* then +inf
XAdd(x, y) ==
    IF x = NaN \/ y = NaN THEN NaN
    ELSE IF x = Inf \/ y = Inf THEN Inf
    ELSE RAdd(x, y)

\* x / y in IEEE arithmetic with divide="ignore": a finite non-zero x over 0
\* is infinite, a finite x over an infinity is 0
XDiv(x, y) ==
    IF x = NaN \/ y = NaN THEN NaN
    ELSE IF y = Inf THEN (IF x = Inf THEN NaN ELSE Zero)
    ELSE IF x = Inf THEN Inf
    ELSE IF y = Zero THEN (IF x = Zero THEN NaN ELSE Inf)
    ELSE RDiv(x, y)

\* The sum of data over the cells of S, by plain addition (ndarray.sum)
RECURSIVE SumOver(_, _)
SumOver(data, S) ==
    IF S = {} THEN Zero
    ELSE LET x == CHOOSE y \in S : TRUE
         IN  XAdd(data[x], SumOver(data, S \ {x}))

\* The cells of S that do not hold NaN
NotNaN(data, S) == {x \in S : ~IsNaN(data[x])}

\* np.nansum over the cells of S
nansum(data, S) == SumOver(data, NotNaN(data, S))

\* np.nanmean over the cells of S: NaN when every cell is NaN
nanmean(data, S) ==
    IF NotNaN(data, S) = {} THEN NaN
    ELSE XDiv(nansum(data, S), R(Cardinality(NotNaN(data, S)), 1))

\* Variant of nanmax that returns the smallest value (sensitivity of C13)
nanmax_smallest(data, S) ==
    IF NotNaN(data, S) = {} THEN NaN
    ELSE data[CHOOSE x \in NotNaN(data, S) :
                  \A y \in NotNaN(data, S) : RLe(data[x], data[y])]

\* np.nanmax over the cells of S: NaN when every cell is NaN
nanmax(data, S) ==
    IF NotNaN(data, S) = {} THEN NaN
    ELSE data[CHOOSE x \in NotNaN(data, S) :
                  \A y \in NotNaN(data, S) : RGe(data[x], data[y])]

\* np.nanmin over the cells of S: NaN when every cell is NaN
nanmin(data, S) ==
    IF NotNaN(data, S) = {} THEN NaN
    ELSE data[CHOOSE x \in NotNaN(data, S) :
                  \A y \in NotNaN(data, S) : RLe(data[x], data[y])]

-----------------------------------------------------------------------------
(* coarsen_grid: src/src/bores/grids/base.py                               *)

valid_methods == {"mean", "sum", "max", "min", "harmonic"}

\* The ValidationError coarsen_grid raises, "none" when it raises none
CoarsenErrorOf(a) ==
    IF Len(a.batch_size) # Rank(a.data) THEN "batch_size_length"
    ELSE IF a.method \notin valid_methods THEN "method"
    ELSE "none"

\* pad_width: the cells appended after the end of each axis
pad_width(shape, batch_size) ==
    [d \in 1..Len(shape) |->
        IF shape[d] % batch_size[d] = 0 THEN 0
        ELSE batch_size[d] - (shape[d] % batch_size[d])]

\* Variant of pad_value that pads every method with 0 (sensitivity of C14)
pad_value_zero(method) == Zero

\* pad_value: NaN for the methods that ignore it, 0 for sum
pad_value(method) ==
    IF method \in {"mean", "max", "min", "harmonic"} THEN NaN ELSE Zero

\* np.pad(data, pad_width, mode="constant", constant_values=value)
PadConstant(data, width, value) ==
    [x \in Indices([d \in 1..Rank(data) |-> ShapeOf(data)[d] + width[d]]) |->
        IF x \in DOMAIN data THEN data[x] ELSE value]

\* Variant of BlockOf that takes every batch_size-th cell instead of
\* batch_size adjacent cells (sensitivity of C12)
BlockOf_strided(o, batch_size, cells) ==
    {x \in cells : \A d \in 1..Len(o) :
        x[d] % (Cardinality({y[d] : y \in cells}) \div batch_size[d]) = o[d]}

\* The cells that data_padded.reshape(reshape_shape) groups under output
\* index o: batch_size[d] adjacent cells along every axis d
BlockOf(o, batch_size, cells) ==
    {x \in cells : \A d \in 1..Len(o) : x[d] \div batch_size[d] = o[d]}

\* The harmonic branch for one block: counts / sum_reciprocals, NaN for a
\* block without values, 0 for an infinite quotient
HarmonicOfBlock(data, S, epsilon) ==
    LET reciprocals == [x \in S |->
            IF IsNaN(data[x]) THEN NaN ELSE XDiv(One, RAdd(data[x], epsilon))]
        counts == Cardinality(NotNaN(data, S))
        sum_reciprocals == nansum(reciprocals, S)
        coarsened == XDiv(R(counts, 1), sum_reciprocals)
    IN  IF counts = 0 THEN NaN ELSE IF coarsened = Inf THEN Zero ELSE coarsened

\* The aggregation of one block of data_reshaped
Aggregate(method, data, S, epsilon) ==
    CASE method = "mean" -> nanmean(data, S)
      [] method = "sum" -> SumOver(data, S)
      [] method = "max" -> nanmax(data, S)
      [] method = "min" -> nanmin(data, S)
      [] method = "harmonic" -> HarmonicOfBlock(data, S, epsilon)

\* remainder = dim % b raises ZeroDivisionError when a block size b is 0
ZeroBlock(a) == \E d \in 1..Len(a.batch_size) : a.batch_size[d] = 0

coarsen_grid(a) ==
    IF CoarsenErrorOf(a) # "none"
    THEN [status |-> "raised", exception |-> "ValidationError",
          error |-> CoarsenErrorOf(a), grid |-> None]
    ELSE IF ZeroBlock(a)
    THEN [status |-> "raised", exception |-> "ZeroDivisionError",
          error |-> "modulo_by_zero", grid |-> None]
    ELSE LET data_padded == PadConstant(a.data, pad_width(ShapeOf(a.data), a.batch_size),
                                        pad_value(a.method))
             coarse_shape == [d \in 1..Rank(a.data) |->
                                 ShapeOf(data_padded)[d] \div a.batch_size[d]]
         IN  [status |-> "returned", exception |-> "none", error |-> "none",
              grid |-> [o \in Indices(coarse_shape) |->
                           Aggregate(a.method, data_padded,
                                     BlockOf(o, a.batch_size, DOMAIN data_padded),
                                     a.epsilon)]]

\* Largest block size along an axis
MaxBlock == 2

\* np.arange(n).reshape(shape): the cells hold 0..n-1 in row-major order
Arange(shape) ==
    [x \in Indices(shape) |->
        CASE Len(shape) = 2 -> R(x[1] * shape[2] + x[2], 1)
          [] Len(shape) = 3 -> R((x[1] * shape[2] + x[2]) * shape[3] + x[3], 1)]

Tenth == R(1, 10)

\* Block sizes of the given rank
BlockSizes(rank) == [1..rank -> 1..MaxBlock]

\* Every method on two shapes whose extents are and are not multiples of
\* the block sizes, over cells that hold numbers or NaN
CoarsenMethodCalls ==
    [data : [Indices(<<3, 2>>) -> {NaN, One, R(3, 1)}],
     batch_size : BlockSizes(2), method : valid_methods, epsilon : {Tenth}]
    \cup
    [data : [Indices(<<2, 1, 3>>) -> {NaN, R(3, 1)}],
     batch_size : BlockSizes(3), method : valid_methods, epsilon : {Tenth}]

\* The harmonic method with and without epsilon, over cells that may hold 0
CoarsenHarmonicCalls ==
    [data : [Indices(<<3, 1>>) -> {NaN, Zero, One, R(3, 1)}],
     batch_size : BlockSizes(2), method : {"harmonic"}, epsilon : {Zero, Tenth}]

\* Calls with a batch_size of the wrong length or an unsupported method
CoarsenErrorCalls ==
    [data : [Indices(<<2, 2>>) -> {One, R(3, 1)}],
     batch_size : BlockSizes(2) \cup BlockSizes(1) \cup BlockSizes(3),
     method : valid_methods \cup {"median"}, epsilon : {Tenth}]

\* Calls with a block size of 0 along an axis
CoarsenZeroBlockCalls ==
    [data : [Indices(<<2, 2>>) -> {One, R(3, 1)}],
     batch_size : {b \in [1..2 -> 0..MaxBlock] : 0 \in {b[1], b[2]}},
     method : {"mean", "sum", "median"}, epsilon : {Tenth}]

\* The two documented examples
CoarsenExampleCalls ==
    {[data |-> Arange(<<4, 4>>), batch_size |-> <<2, 2>>,
      method |-> "mean", epsilon |-> Tenth],
     [data |-> Arange(<<4, 4, 4>>), batch_size |-> <<2, 2, 2>>,
      method |-> "max", epsilon |-> Tenth]}

PendingCall ==
    [status |-> "pending", exception |-> "none", error |-> "none", grid |-> None]

InitCoarsen ==
    /\ coarsenArgs \in CoarsenMethodCalls \cup CoarsenHarmonicCalls
                           \cup CoarsenErrorCalls \cup CoarsenZeroBlockCalls
                           \cup CoarsenExampleCalls
    /\ coarsenResult = PendingCall

\* coarsen_grid assigns into no array: np.pad, reshape, the reductions and
\* np.where give arrays of their own or views that are only read
CoarsenWritten(result) == {}

\* One call of coarsen_grid
CoarsenGrid ==
    /\ coarsenArgs # None
    /\ coarsenResult.status = "pending"
    /\ coarsenResult' = coarsen_grid(coarsenArgs)
    /\ coarsenArgs' = InputsAfter(coarsenArgs, {"data"}, CoarsenWritten(coarsenResult'))
    /\ UNCHANGED <<satVars, elevVars, dipVars, appVars,
                   permVars, flattenVars, layeredVars, padVars>>

-----------------------------------------------------------------------------
(* coarsen_permeability_grids: src/src/bores/grids/base.py                 *)
(* An argument that was not supplied is None.                              *)

\* Variant of _axis_harmonic_mean that takes the arithmetic mean of the line
\* (sensitivity of C15)
_axis_arithmetic_mean(data, line, epsilon) == nanmean(data, line)

\* _axis_harmonic_mean for one line of cells along the axis: NaN for a line
\* without values, 0 for an infinite quotient
_axis_harmonic_mean(data, line, epsilon) ==
    LET reciprocals == [x \in line |->
            IF IsNaN(data[x]) THEN NaN ELSE XDiv(One, RAdd(data[x], epsilon))]
        counts == Cardinality(NotNaN(data, line))
        sum_reciprocals == nansum(reciprocals, line)
        result == XDiv(R(counts, 1), XAdd(sum_reciprocals, epsilon))
    IN  IF counts = 0 THEN NaN ELSE IF result = Inf THEN Zero ELSE result

\* The lines of a block along an axis: the cells that agree on every other
\* index
LinesOf(block, axis) ==
    {{x \in block : \A d \in 1..Len(y) : d # axis => x[d] = y[d]} : y \in block}

\* np.nanmean(_axis_harmonic_mean(block, axis, epsilon))
HarmonicThenArithmetic(data, block, axis, epsilon) ==
    LET harmonic == [line \in LinesOf(block, axis) |->
                        _axis_harmonic_mean(data, line, epsilon)]
    IN  nanmean(harmonic, LinesOf(block, axis))

\* pad_x, pad_y, pad_z
perm_pad(shape, batch_size) ==
    [d \in 1..Len(shape) |->
        (batch_size[d] - (shape[d] % batch_size[d])) % batch_size[d]]

\* One directional grid coarsened: harmonic along its axis, arithmetic
\* across the others, block by block over the padded grid
CoarsenDirection(k, axis, batch_size, epsilon) ==
    LET padded_k == PadConstant(k, perm_pad(ShapeOf(k), batch_size), NaN)
        coarse_shape == [d \in 1..Rank(k) |-> ShapeOf(padded_k)[d] \div batch_size[d]]
    IN  [o \in Indices(coarse_shape) |->
            HarmonicThenArithmetic(padded_k, BlockOf(o, batch_size, DOMAIN padded_k),
                                   axis, epsilon)]

\* Some element of batch_size is < 1
BlockSizeBelowOne(batch_size) == \E d \in 1..Len(batch_size) : batch_size[d] < 1

\* The ValidationError _coarsen_2d_permeability_grids raises, or "none"
Coarsen2dErrorOf(a) ==
    IF ShapeOf(a.kx) # ShapeOf(a.ky) THEN "shape"
    ELSE IF Rank(a.kx) # 2 THEN "rank"
    ELSE IF Len(a.batch_size) # 2 THEN "batch_size_length"
    ELSE IF BlockSizeBelowOne(a.batch_size) THEN "batch_size_value"
    ELSE "none"

\* The ValidationError _coarsen_3d_permeability_grids raises, or "none"
Coarsen3dErrorOf(a) ==
    IF ~(ShapeOf(a.kx) = ShapeOf(a.ky) /\ ShapeOf(a.ky) = ShapeOf(a.kz)) THEN "shape"
    ELSE IF Rank(a.kx) # 3 THEN "rank"
    ELSE IF Len(a.batch_size) # 3 THEN "batch_size_length"
    ELSE IF BlockSizeBelowOne(a.batch_size) THEN "batch_size_value"
    ELSE "none"

\* Variant of PermErrorOf that lets a 2-D call with kz through
\* (sensitivity of C16)
PermErrorOf_kz_ignored(a) ==
    IF a.batch_size = None THEN "batch_size_missing"
    ELSE IF Rank(a.kx) = 2
    THEN IF Len(a.batch_size) # 2 THEN "batch_size_length"
         ELSE Coarsen2dErrorOf(a)
    ELSE IF Rank(a.kx) = 3
    THEN IF a.kz = None THEN "kz_missing"
         ELSE IF Len(a.batch_size) # 3 THEN "batch_size_length"
         ELSE Coarsen3dErrorOf(a)
    ELSE "rank"

\* The ValidationError coarsen_permeability_grids raises, or "none"
PermErrorOf(a) ==
    IF a.batch_size = None THEN "batch_size_missing"
    ELSE IF Rank(a.kx) = 2
    THEN IF a.kz # None THEN "kz_given"
         ELSE IF Len(a.batch_size) # 2 THEN "batch_size_length"
         ELSE Coarsen2dErrorOf(a)
    ELSE IF Rank(a.kx) = 3
    THEN IF a.kz = None THEN "kz_missing"
         ELSE IF Len(a.batch_size) # 3 THEN "batch_size_length"
         ELSE Coarsen3dErrorOf(a)
    ELSE "rank"

_coarsen_2d_permeability_grids(a) ==
    [status |-> "returned", error |-> "none",
     kx |-> CoarsenDirection(a.kx, 1, a.batch_size, a.epsilon),
     ky |-> CoarsenDirection(a.ky, 2, a.batch_size, a.epsilon),
     kz |-> None]

_coarsen_3d_permeability_grids(a) ==
    [status |-> "returned", error |-> "none",
     kx |-> CoarsenDirection(a.kx, 1, a.batch_size, a.epsilon),
     ky |-> CoarsenDirection(a.ky, 2, a.batch_size, a.epsilon),
     kz |-> CoarsenDirection(a.kz, 3, a.batch_size, a.epsilon)]

coarsen_permeability_grids(a) ==
    IF PermErrorOf(a) # "none"
    THEN [status |-> "raised", error |-> PermErrorOf(a),
          kx |-> None, ky |-> None, kz |-> None]
    ELSE IF Rank(a.kx) = 2 THEN _coarsen_2d_permeability_grids(a)
    ELSE _coarsen_3d_permeability_grids(a)

\* An array of one value
Constant(shape, value) == [x \in Indices(shape) |-> value]

\* The documented 4x4 grid whose rows alternate 100 and 1 along x
LayeredExample ==
    [x \in Indices(<<4, 4>>) |-> IF x[1] % 2 = 0 THEN R(100, 1) ELSE One]

PermExampleCalls ==
    [kx : {LayeredExample}, ky : {LayeredExample}, kz : {None},
     batch_size : {<<2, 2>>}, epsilon : {Zero, Tenth}]

PermValues == {Zero, One, R(3, 1)}

\* 2-D calls in which one grid takes every value and the other is uniform
Perm2dCalls ==
    [kx : [Indices(<<3, 2>>) -> PermValues],
     ky : {Constant(<<3, 2>>, One)}, kz : {None},
     batch_size : BlockSizes(2), epsilon : {Zero}]
    \cup
    [kx : [Indices(<<3, 2>>) -> {One, R(3, 1)}],
     ky : {Constant(<<3, 2>>, One), Constant(<<3, 2>>, R(3, 1))}, kz : {None},
     batch_size : BlockSizes(2), epsilon : {R(1, 2)}]
    \cup
    [kx : {Constant(<<3, 2>>, One), Constant(<<3, 2>>, R(3, 1))},
     ky : [Indices(<<3, 2>>) -> {One, R(3, 1)}], kz : {None},
     batch_size : BlockSizes(2), epsilon : {Zero, R(1, 2)}]

\* 3-D calls in which kz takes every value
Perm3dCalls ==
    [kx : {Constant(<<2, 1, 3>>, One)}, ky : {Constant(<<2, 1, 3>>, R(3, 1))},
     kz : [Indices(<<2, 1, 3>>) -> {One, R(3, 1)}],
     batch_size : BlockSizes(3), epsilon : {Zero, R(1, 2)}]

\* Calls with every combination of grid ranks and shapes, kz supplied or
\* not, and batch_size missing, short, long, or with an element below 1
PermGrids ==
    {Constant(<<2>>, One), Constant(<<2, 2>>, One), Constant(<<2, 1>>, One),
     Constant(<<2, 1, 2>>, One), Constant(<<1, 1, 2>>, One)}
PermErrorCalls ==
    [kx : PermGrids, ky : PermGrids, kz : PermGrids \cup {None},
     batch_size : {None, <<2>>, <<1, 2>>, <<0, 1>>, <<2, -1>>, <<1, 1, 2>>, <<1, 0, 1>>},
     epsilon : {Tenth}]

PendingPerm ==
    [status |-> "pending", error |-> "none", kx |-> None, ky |-> None, kz |-> None]

InitPerm ==
    /\ permArgs \in PermExampleCalls \cup Perm2dCalls \cup Perm3dCalls \cup PermErrorCalls
    /\ permResult = PendingPerm

\* One call of coarsen_permeability_grids
\* kx_coarse, ky_coarse, kz_coarse = np.zeros(...), assigned cell by cell;
\* kx_padded is np.pad(kx, ...) or kx itself and is only read
PermWritten(result) ==
    IF result.status # "returned" THEN {}
    ELSE {[buffer |-> NewBuffer("kx_coarse", ""), cells |-> result.kx],
          [buffer |-> NewBuffer("ky_coarse", ""), cells |-> result.ky],
          [buffer |-> NewBuffer("kz_coarse", ""), cells |-> result.kz]}

CoarsenPermeabilityGrids ==
    /\ permArgs # None
    /\ permResult.status = "pending"
    /\ permResult' = coarsen_permeability_grids(permArgs)
    /\ permArgs' = InputsAfter(permArgs, {"kx", "ky", "kz"}, PermWritten(permResult'))
    /\ UNCHANGED <<satVars, elevVars, dipVars, appVars,
                   coarsenVars, flattenVars, layeredVars, padVars>>

-----------------------------------------------------------------------------
(* flatten_multilayer_grid_to_surface: src/src/bores/grids/base.py         *)
(* A strategy is a name of a built-in reduction, a caller-supplied         *)
(* callable, written as the Python expression the caller passes, or an     *)
(* object that is neither.                                                 *)

\* x * y in IEEE arithmetic on numbers and NaN
XMul(x, y) == IF x = NaN \/ y = NaN THEN NaN ELSE RMul(x, y)

\* The cells of column (i, j): grid[i, j, :]
ColumnOf(grid, i, j) == {x \in DOMAIN grid : x[1] = i /\ x[2] = j}

\* The callables the model passes as strategy: callable(strategy) holds
CustomReductions ==
    {"np.max", "lambda c: c.max(axis=-1)", "lambda c: float(c.max())",
     "lambda c: c[0]", "max", "lambda c: c", "lambda c: 1 / 0"}

\* Objects that are neither a string nor callable
NonStrategies == {"5"}

\* isinstance(strategy, str)
IsString(strategy) == strategy \notin CustomReductions \cup NonStrategies

\* The ValidationError flatten_multilayer_grid_to_surface raises on its
\* arguments, or "none"
FlattenErrorOf(a) ==
    IF Rank(a.multilayer_grid) # 3 THEN "not_3d"
    ELSE IF a.strategy = "weighted_mean"
    THEN IF a.weights = None THEN "weights_missing"
         ELSE IF ShapeOf(a.weights) # ShapeOf(a.multilayer_grid) THEN "weights_shape"
         ELSE "none"
    ELSE IF IsString(a.strategy)
    THEN IF a.strategy \notin {"max", "min", "mean", "sum", "top", "bottom"}
         THEN "strategy"
         ELSE "none"
    ELSE IF a.strategy \in CustomReductions THEN "none"
    ELSE "strategy_type"

\* Variant of weighted_sum that adds the values without their weights
\* (sensitivity of C17)
weighted_sum_unweighted(a, column) ==
    IF a.ignore_nan THEN nansum(a.multilayer_grid, column)
    ELSE SumOver(a.multilayer_grid, column)

\* weighted_sum of one column: (nan)sum of weights * multilayer_grid
weighted_sum(a, column) ==
    LET products == [x \in column |-> XMul(a.weights[x], a.multilayer_grid[x])]
    IN  IF a.ignore_nan THEN nansum(products, column) ELSE SumOver(products, column)

\* weight_sum of one column
weight_sum(a, column) ==
    IF a.ignore_nan THEN nansum(a.weights, column) ELSE SumOver(a.weights, column)

\* np.divide(weighted_sum, weight_sum, out=NaN, where=(weight_sum != 0))
WeightedMeanOf(a, column) ==
    IF weight_sum(a, column) # Zero
    THEN XDiv(weighted_sum(a, column), weight_sum(a, column))
    ELSE NaN

\* The plain reductions of one column: NaN propagates
PlainMax(data, S) == IF NotNaN(data, S) # S THEN NaN ELSE nanmax(data, S)
PlainMin(data, S) == IF NotNaN(data, S) # S THEN NaN ELSE nanmin(data, S)
PlainMean(data, S) == XDiv(SumOver(data, S), R(Cardinality(S), 1))

\* The value of one column under a built-in strategy
FlattenColumn(a, column) ==
    CASE a.strategy = "weighted_mean" -> WeightedMeanOf(a, column)
      [] a.strategy = "max" ->
            IF a.ignore_nan THEN nanmax(a.multilayer_grid, column)
            ELSE PlainMax(a.multilayer_grid, column)
      [] a.strategy = "min" ->
            IF a.ignore_nan THEN nanmin(a.multilayer_grid, column)
            ELSE PlainMin(a.multilayer_grid, column)
      [] a.strategy = "mean" ->
            IF a.ignore_nan THEN nanmean(a.multilayer_grid, column)
            ELSE PlainMean(a.multilayer_grid, column)
      [] a.strategy = "sum" ->
            IF a.ignore_nan THEN nansum(a.multilayer_grid, column)
            ELSE SumOver(a.multilayer_grid, column)
      [] a.strategy = "top" ->
            a.multilayer_grid[CHOOSE x \in column : x[3] = 0]
      [] a.strategy = "bottom" ->
            a.multilayer_grid[CHOOSE x \in column :
                                  x[3] = Extent(a.multilayer_grid, 3) - 1]

\* What a call of a callable gives: a numpy scalar (np.float64, that has the
\* shape ()), a Python scalar (float, that has no shape), an array, or an
\* exception
NumpyScalar(v) == [kind |-> "numpy_scalar", value |-> v]
PythonScalar(v) == [kind |-> "python_scalar", value |-> v]
ArrayValue(cells) == [kind |-> "array", value |-> cells]
Raises(exception) == [kind |-> "raises", value |-> exception]

\* The row c[r, :] of an array of rank 2, as an array of rank 1
RowOf(c, r) == [x \in {<<m>> : m \in 0..(Extent(c, 2) - 1)} |-> c[<<r, x[1]>>]]

\* strategy(c) for the callables of CustomReductions, on an array c of rank
\* 1 (one column) or of rank 2 (one column per row), as numpy evaluates it
CallStrategy(strategy, c) ==
    CASE strategy = "np.max" -> NumpyScalar(PlainMax(c, DOMAIN c))
      [] strategy = "lambda c: c.max(axis=-1)" ->
            IF Rank(c) = 1 THEN NumpyScalar(PlainMax(c, DOMAIN c))
            ELSE ArrayValue([x \in {<<r>> : r \in 0..(Extent(c, 1) - 1)} |->
                                PlainMax(c, {y \in DOMAIN c : y[1] = x[1]})])
      [] strategy = "lambda c: float(c.max())" -> PythonScalar(PlainMax(c, DOMAIN c))
      [] strategy = "lambda c: c[0]" ->
            IF Rank(c) = 1 THEN NumpyScalar(c[<<0>>]) ELSE ArrayValue(RowOf(c, 0))
      [] strategy = "max" ->
            IF Rank(c) = 1 THEN NumpyScalar(PlainMax(c, DOMAIN c))
            ELSE IF Extent(c, 1) = 1 THEN ArrayValue(RowOf(c, 0))
            ELSE Raises("ValueError")
      [] strategy = "lambda c: c" -> ArrayValue(c)
      [] strategy = "lambda c: 1 / 0" -> Raises("ZeroDivisionError")

\* np.isscalar(value)
isscalar(value) == value.kind \in {"numpy_scalar", "python_scalar"}

\* multilayer_grid[i, j, :]
test_slice(grid, i, j) ==
    [x \in {<<k>> : k \in 0..(Extent(grid, 3) - 1)} |-> grid[<<i, j, x[1]>>]]

\* multilayer_grid.reshape(-1, nz): row i * ny + j holds column (i, j)
reshaped(grid) ==
    [x \in Indices(<<Extent(grid, 1) * Extent(grid, 2), Extent(grid, 3)>>) |->
        grid[<<x[1] \div Extent(grid, 2), x[1] % Extent(grid, 2), x[2]>>]]

FlattenFailed(error) ==
    [status |-> "raised", exception |-> "ValidationError", error |-> error,
     grid |-> None]
FlattenReturns(grid) ==
    [status |-> "returned", exception |-> "none", error |-> "none", grid |-> grid]

\* np.apply_along_axis(strategy, axis=2, arr=multilayer_grid); an exception
\* of the strategy is reported by the enclosing except clause
apply_along_axis(strategy, grid) ==
    LET surface == Indices(<<Extent(grid, 1), Extent(grid, 2)>>)
        values == [c \in surface |-> CallStrategy(strategy, test_slice(grid, c[1], c[2]))]
    IN  IF \E c \in surface : values[c].kind = "raises"
        THEN FlattenFailed("strategy_failed")
        ELSE FlattenReturns([c \in surface |-> values[c].value])

\* result_flat.shape == (nx * ny,), for a result_flat that has a shape
vectorized_accepted(result_flat, nx, ny) ==
    /\ result_flat.kind = "array"
    /\ ShapeOf(result_flat.value) = <<nx * ny>>

\* The branch of a callable strategy
flatten_with_callable(a) ==
    LET grid == a.multilayer_grid
        nx == Extent(grid, 1)
        ny == Extent(grid, 2)
        result_scalar == CallStrategy(a.strategy, test_slice(grid, 0, 0))
        result_flat == CallStrategy(a.strategy, reshaped(grid))
    IN  IF result_scalar.kind = "raises" THEN FlattenFailed("strategy_failed")
        ELSE IF ~isscalar(result_scalar) THEN FlattenFailed("not_a_scalar")
        ELSE IF result_flat.kind = "raises"
                    /\ result_flat.value \notin {"ValueError", "TypeError"}
        THEN FlattenFailed("strategy_failed")
        ELSE IF result_flat.kind = "python_scalar"
        THEN FlattenFailed("strategy_failed")
        ELSE IF result_flat.kind # "raises" /\ vectorized_accepted(result_flat, nx, ny)
        THEN FlattenReturns([c \in Indices(<<nx, ny>>) |->
                                result_flat.value[<<c[1] * ny + c[2]>>]])
        ELSE apply_along_axis(a.strategy, grid)

flatten_multilayer_grid_to_surface(a) ==
    IF FlattenErrorOf(a) # "none" THEN FlattenFailed(FlattenErrorOf(a))
    ELSE IF a.strategy \in CustomReductions THEN flatten_with_callable(a)
    ELSE FlattenReturns([c \in Indices(<<Extent(a.multilayer_grid, 1),
                                         Extent(a.multilayer_grid, 2)>>) |->
                            FlattenColumn(a, ColumnOf(a.multilayer_grid, c[1], c[2]))])

FlattenStrategies == {"max", "min", "mean", "sum", "top", "bottom", "weighted_mean"}
FlattenValues == {NaN, One, R(4, 1)}
FlattenWeights == {R(-1, 1), Zero, One, R(2, 1)}

\* Weighted means of two columns of two layers: every value and every weight,
\* a weight of -1 letting a column's weights cancel
WeightedMeanCalls ==
    [multilayer_grid : [Indices(<<1, 2, 2>>) -> FlattenValues],
     strategy : {"weighted_mean"},
     weights : [Indices(<<1, 2, 2>>) -> FlattenWeights],
     ignore_nan : BOOLEAN]

\* Weights that hold NaN
NaNWeightCalls ==
    [multilayer_grid : [Indices(<<1, 1, 2>>) -> FlattenValues],
     strategy : {"weighted_mean"},
     weights : [Indices(<<1, 1, 2>>) -> {NaN, One}],
     ignore_nan : BOOLEAN]

\* Every strategy, known or not, on grids of rank 3 and 2, with weights
\* missing, of the grid's shape, or of another shape
StrategyCalls ==
    [multilayer_grid : [Indices(<<2, 1, 2>>) -> FlattenValues]
                           \cup {Constant(<<2, 2>>, One)},
     strategy : FlattenStrategies \cup {"median"},
     weights : {None, Constant(<<2, 1, 2>>, One), Constant(<<2, 1, 3>>, One),
                Constant(<<2, 2>>, One)},
     ignore_nan : BOOLEAN]

\* Every callable, and an object that is not one, on grids whose layer count
\* is and is not the number of their columns
CustomShapes == {<<1, 1, 1>>, <<1, 1, 2>>, <<1, 2, 1>>, <<1, 2, 2>>, <<2, 1, 2>>, <<2, 1, 3>>}

CustomCalls ==
    [multilayer_grid : UNION {[Indices(shape) -> {One, R(4, 1)}] : shape \in CustomShapes}
                           \cup {Constant(<<2, 2>>, One)},
     strategy : CustomReductions \cup NonStrategies,
     weights : {None},
     ignore_nan : BOOLEAN]

InitFlatten ==
    /\ flattenArgs \in WeightedMeanCalls \cup NaNWeightCalls \cup StrategyCalls
                           \cup CustomCalls
    /\ flattenResult = PendingCall

\* The weighted mean divides into out=np.full((nx, ny), np.nan); no other
\* branch assigns into an array
FlattenWritten(a, result) ==
    IF result.status = "returned" /\ a.strategy = "weighted_mean"
    THEN {[buffer |-> NewBuffer("out", ""), cells |-> result.grid]}
    ELSE {}

\* One call of flatten_multilayer_grid_to_surface
FlattenMultilayerGridToSurface ==
    /\ flattenArgs # None
    /\ flattenResult.status = "pending"
    /\ flattenResult' = flatten_multilayer_grid_to_surface(flattenArgs)
    /\ flattenArgs' = InputsAfter(flattenArgs, {"multilayer_grid", "weights"},
                                  FlattenWritten(flattenArgs, flattenResult'))
    /\ UNCHANGED <<satVars, elevVars, dipVars, appVars,
                   coarsenVars, permVars, layeredVars, padVars>>

-----------------------------------------------------------------------------
(* build_layered_grid (alias layered_grid): src/src/bores/grids/base.py    *)
(* layer_values is a sequence; a result records the kind of the exception  *)
(* that ended the call, "none" when it returned.                           *)

\* build_uniform_grid(grid_shape, value): np.full(grid_shape, value)
build_uniform_grid(grid_shape, value) == [x \in Indices(grid_shape) |-> value]

\* layered_grid[i, :, :] = layer_value (axis 1), layered_grid[:, j, :] =
\* layer_value (axis 2), layered_grid[:, :, k] = layer_value (axis 3), for
\* every layer in turn, on a grid of three axes
AssignLayers(layered_grid, layer_values, axis) ==
    [x \in DOMAIN layered_grid |-> layer_values[x[axis] + 1]]

\* The statement layered_grid[i, :, :] = layer_value indexes three axes:
\* numpy raises IndexError on a grid that has fewer
LayerAssignment(grid_shape, layer_values, axis) ==
    IF Len(grid_shape) # 3
    THEN [status |-> "raised", exception |-> "IndexError", error |-> "too_many_indices",
          grid |-> None]
    ELSE [status |-> "returned", exception |-> "none", error |-> "none",
          grid |-> AssignLayers(build_uniform_grid(grid_shape, Zero), layer_values, axis)]

LayeredValidationError(error) ==
    [status |-> "raised", exception |-> "ValidationError", error |-> error, grid |-> None]

build_layered_grid(a) ==
    IF Len(a.layer_values) < 1 THEN LayeredValidationError("no_layer_values")
    ELSE IF a.orientation = "x"
    THEN IF Len(a.layer_values) # a.grid_shape[1]
         THEN LayeredValidationError("x_layer_count")
         ELSE LayerAssignment(a.grid_shape, a.layer_values, 1)
    ELSE IF a.orientation = "y"
    THEN IF Len(a.layer_values) # a.grid_shape[2]
         THEN LayeredValidationError("y_layer_count")
         ELSE LayerAssignment(a.grid_shape, a.layer_values, 2)
    ELSE IF a.orientation = "z"
    THEN IF Len(a.grid_shape) # 3
         THEN LayeredValidationError("z_needs_three_axes")
         ELSE IF Len(a.layer_values) # a.grid_shape[3]
         THEN LayeredValidationError("z_layer_count")
         ELSE LayerAssignment(a.grid_shape, a.layer_values, 3)
    ELSE LayeredValidationError("orientation")

\* Largest extent of a layered grid along an axis
MaxExtent == 2

\* Sequences of layer values of every length from 0 to MaxExtent + 1
LayerValueLists ==
    UNION {[1..n -> {One, R(3, 1)}] : n \in 0..(MaxExtent + 1)}

LayeredCalls ==
    [grid_shape : [1..2 -> 1..MaxExtent] \cup [1..3 -> 1..MaxExtent],
     layer_values : LayerValueLists,
     orientation : {"x", "y", "z", "diagonal"}]

InitLayered ==
    /\ layeredArgs \in LayeredCalls
    /\ layeredResult = [status |-> "pending", exception |-> "none", error |-> "none",
                        grid |-> None]

\* layered_grid = build_uniform_grid(...), assigned layer by layer
LayeredWritten(result) ==
    IF result.status # "returned" THEN {}
    ELSE {[buffer |-> NewBuffer("layered_grid", ""), cells |-> result.grid]}

\* One call of build_layered_grid
BuildLayeredGrid ==
    /\ layeredArgs # None
    /\ layeredResult.status = "pending"
    /\ layeredResult' = build_layered_grid(layeredArgs)
    /\ layeredArgs' = InputsAfter(layeredArgs, {"layer_values"},
                                  LayeredWritten(layeredResult'))
    /\ UNCHANGED <<satVars, elevVars, dipVars, appVars,
                   coarsenVars, permVars, flattenVars, padVars>>

-----------------------------------------------------------------------------
(* pad_grid, unpad_grid, get_pad_mask: src/src/bores/grids/base.py         *)
(* An array result carries its shape next to its cells, so that an array   *)
(* without cells still has one.                                            *)

Min(m, n) == IF m < n THEN m ELSE n
Max(m, n) == IF m < n THEN n ELSE m

\* The position a slice bound v denotes on an axis of extent n: a negative
\* bound counts from the end, and -0 is 0
SliceBound(n, v) == IF v < 0 THEN Max(n + v, 0) ELSE Min(v, n)

\* The indices slice(start, stop) selects on an axis of extent n
SliceOf(n, start, stop) ==
    {i \in 0..(n - 1) : SliceBound(n, start) <= i /\ i < SliceBound(n, stop)}

\* The indices slice(start, None) selects on an axis of extent n
SliceFrom(n, start) == {i \in 0..(n - 1) : SliceBound(n, start) <= i}

ArrayResult(shape, cells) ==
    [status |-> "returned", exception |-> "none", shape |-> shape, grid |-> cells]
RaisedResult(exception) ==
    [status |-> "raised", exception |-> exception, shape |-> None, grid |-> None]

\* np.pad(grid, pad_width=pad_width, mode="edge"): every cell of the padded
\* array holds the value of the nearest cell of the grid
pad_grid(grid, width) ==
    LET shape == ShapeOf(grid)
        padded_shape == [d \in 1..Len(shape) |-> shape[d] + 2 * width]
    IN  ArrayResult(padded_shape,
            [x \in Indices(padded_shape) |->
                grid[[d \in 1..Len(shape) |->
                        Max(0, Min(x[d] - width, shape[d] - 1))]]])

\* grid[pad_width:-pad_width, ...] along every axis, for a grid of the given
\* shape: the selected cells, renumbered from 0
unpad_grid(grid, shape, width) ==
    IF Len(shape) \notin {2, 3} THEN RaisedResult("ValueError")
    ELSE LET kept == [d \in 1..Len(shape) |-> SliceOf(shape[d], width, -width)]
             unpadded_shape == [d \in 1..Len(shape) |-> Cardinality(kept[d])]
         IN  ArrayResult(unpadded_shape,
                 [y \in Indices(unpadded_shape) |->
                     grid[[d \in 1..Len(shape) |-> y[d] + width]]])

\* The cells mask[slices] = True sets: slice(0, pad_width) on the first axis,
\* slice(-pad_width, None) on the second, slice(pad_width, -pad_width) on
\* every further axis
MaskSlices(padded_shape, width) ==
    [d \in 1..Len(padded_shape) |->
        IF d = 1 THEN SliceOf(padded_shape[d], 0, width)
        ELSE IF d = 2 THEN SliceFrom(padded_shape[d], -width)
        ELSE SliceOf(padded_shape[d], width, -width)]

\* get_pad_mask as its statements execute
get_pad_mask(grid_shape, width) ==
    LET padded_shape == [d \in 1..Len(grid_shape) |-> grid_shape[d] + 2 * width]
        slices == MaskSlices(padded_shape, width)
    IN  ArrayResult(padded_shape,
            [x \in Indices(padded_shape) |->
                \A d \in 1..Len(padded_shape) : x[d] \in slices[d]])

\* Largest pad width
MaxPad == 2

\* np.arange over a shape of rank 1, 2 or 3: every cell its own value
Numbered(shape) ==
    [x \in Indices(shape) |->
        CASE Len(shape) = 1 -> R(x[1], 1)
          [] OTHER -> Arange(shape)[x]]

PadShapes == UNION {[1..rank -> 1..MaxExtent] : rank \in 1..3}

PadCalls == [grid : {Numbered(shape) : shape \in PadShapes}, pad_width : 0..MaxPad]

PendingArray == [status |-> "pending", exception |-> "none", shape |-> None, grid |-> None]

InitPad ==
    /\ padArgs \in PadCalls
    /\ padded = PendingArray
    /\ unpadded = PendingArray
    /\ pad_mask = PendingArray

\* pad_grid assigns into no array: np.pad gives an array of its own
PadWritten(result) == {}

\* pad_grid(grid, pad_width)
PadGrid ==
    /\ padArgs # None
    /\ padded.status = "pending"
    /\ padded' = pad_grid(padArgs.grid, padArgs.pad_width)
    /\ padArgs' = InputsAfter(padArgs, {"grid"}, PadWritten(padded'))
    /\ UNCHANGED <<unpadded, pad_mask, satVars, elevVars, dipVars, appVars,
                   coarsenVars, permVars, flattenVars, layeredVars>>

\* unpad_grid(padded, pad_width), on the grid pad_grid returned
UnpadGrid ==
    /\ padded.status = "returned"
    /\ unpadded.status = "pending"
    /\ unpadded' = unpad_grid(padded.grid, padded.shape, padArgs.pad_width)
    /\ UNCHANGED <<padArgs, padded, pad_mask, satVars, elevVars, dipVars, appVars,
                   coarsenVars, permVars, flattenVars, layeredVars>>

\* get_pad_mask(grid.shape, pad_width).  The function is compiled by numba
\* in nopython mode and builds its tuples from generator expressions: the
\* call either executes its statements or fails in compilation.
GetPadMask ==
    /\ pad_mask.status = "pending"
    /\ \/ pad_mask' = get_pad_mask(ShapeOf(padArgs.grid), padArgs.pad_width)
       \/ pad_mask' = RaisedResult("numba compilation error")
    /\ UNCHANGED <<padArgs, padded, unpadded, satVars, elevVars, dipVars, appVars,
                   coarsenVars, permVars, flattenVars, layeredVars>>

-----------------------------------------------------------------------------
(* ModelState.time_in_days, time_in_weeks, time_in_years:                  *)
(* src/src/bores/states.py                                                 *)
(* A time is a pair <<m, e>> that stands for m * 86400^e seconds, m an     *)
(* exact rational that is no multiple of 86400: dividing and multiplying   *)
(* by 86400 changes e alone, so that no product leaves the integers of the *)
(* model.  0 is <<Zero, 0>>.                                                *)

Q(m, e) == IF m = Zero THEN <<Zero, 0>> ELSE <<m, e>>
\* x / 86400
QDivDay(x) == Q(x[1], x[2] - 1)
\* x * 86400
QMulDay(x) == Q(x[1], x[2] + 1)
\* x / r, for a rational r
QDiv(x, r) == Q(RDiv(x[1], r), x[2])

\* return self.time / 86400
time_in_days(self) == QDivDay(self.time)

\* return self.time / 7 * 86400: the quotient by 7, times 86400
time_in_weeks(self) == QMulDay(QDiv(self.time, R(7, 1)))

\* return self.time / c.DAYS_PER_YEAR * 86400
time_in_years(self) == QMulDay(QDiv(self.time, self.c.DAYS_PER_YEAR))

\* Longest time of a state, in days
MaxDays == 7

\* Whole and half days up to MaxDays, and whole seconds up to MaxDays
TimeValues ==
    {Q(R(n, 2), 1) : n \in 0..(2 * MaxDays)} \cup {Q(R(n, 1), 0) : n \in 1..MaxDays}

\* bores.constants is not part of the sources: DAYS_PER_YEAR is 365 or 365.25
DaysPerYearValues == {R(365, 1), R(1461, 4)}

InitTime ==
    /\ modelState \in [time : TimeValues, c : [DAYS_PER_YEAR : DaysPerYearValues]]
    /\ elapsed = [time_in_days |-> None, time_in_weeks |-> None,
                  time_in_years |-> None]

\* One read of state.time_in_days
TimeInDays ==
    /\ modelState # None
    /\ elapsed.time_in_days = None
    /\ elapsed' = [elapsed EXCEPT !.time_in_days = time_in_days(modelState)]
    /\ UNCHANGED <<modelState, validateVars, registrarVars,
                   satVars, elevVars, dipVars, gridVars>>

\* One read of state.time_in_weeks
TimeInWeeks ==
    /\ modelState # None
    /\ elapsed.time_in_weeks = None
    /\ elapsed' = [elapsed EXCEPT !.time_in_weeks = time_in_weeks(modelState)]
    /\ UNCHANGED <<modelState, validateVars, registrarVars,
                   satVars, elevVars, dipVars, gridVars>>

\* One read of state.time_in_years
TimeInYears ==
    /\ modelState # None
    /\ elapsed.time_in_years = None
    /\ elapsed' = [elapsed EXCEPT !.time_in_years = time_in_years(modelState)]
    /\ UNCHANGED <<modelState, validateVars, registrarVars,
                   satVars, elevVars, dipVars, gridVars>>

-----------------------------------------------------------------------------
(* validate_state: src/src/bores/states.py                                 *)
(* A field value carries its Python type.  The classes of bores.models are *)
(* not part of the sources: FluidProperties is modelled with one grid,     *)
(* RockProperties with a float, the permeability and one grid; the grid    *)
(* containers of bores.grids.base have the fields declared there.  dtype   *)
(* None is written "None".                                                 *)

Array(shape, dtype) == [type |-> "ndarray", shape |-> shape, dtype |-> dtype]
Float == [type |-> "float"]
NoneValue == [type |-> "NoneType"]
RockPermeability(x, y, z) == [type |-> "RockPermeability", x |-> x, y |-> y, z |-> z]

\* attrs.fields(cls), in declaration order
FluidFields == <<"pressure_grid">>
RockFields == <<"compressibility", "absolute_permeability", "porosity_grid">>
RateFields == <<"oil", "water", "gas">>
MobilityFields ==
    <<"oil_relative_mobility", "water_relative_mobility", "gas_relative_mobility">>
RelPermFields ==
    <<"oil_relative_permeability", "water_relative_permeability",
      "gas_relative_permeability">>
CapillaryFields == <<"oil_water_capillary_pressure", "gas_oil_capillary_pressure">>
HistoryFields ==
    <<"max_water_saturation_grid", "max_gas_saturation_grid",
      "water_imbibition_flag_grid", "gas_imbibition_flag_grid">>

\* The values of the fields of an object, in order, each with the name the
\* error message gives it
FieldsOf(label, object, fields) ==
    [i \in 1..Len(fields) |-> [name |-> <<label, fields[i]>>, value |-> object[fields[i]]]]

\* The loop over the rock properties when a dtype is given: the fields, and
\* x, y, z of the field absolute_permeability
RockChecksWithDtype(rock_properties) ==
    LET entry(f) ==
            IF f = "absolute_permeability" /\ rock_properties[f].type # "ndarray"
            THEN FieldsOf("Rock permeability", rock_properties[f], <<"x", "y", "z">>)
            ELSE FieldsOf("Rock property grid", rock_properties, <<f>>)
    IN  entry(RockFields[1]) \o entry(RockFields[2]) \o entry(RockFields[3])

\* The loop over the rock properties when dtype is None: the fields
\* themselves
RockChecksWithoutDtype(rock_properties) ==
    FieldsOf("Rock property grid", rock_properties, RockFields)

\* The loops over the five groups that are checked in both branches
GroupChecks(state) ==
    FieldsOf("Injection rate grid", state.injection, RateFields)
        \o FieldsOf("Production rate grid", state.production, RateFields)
        \o FieldsOf("Relative mobility grid", state.relative_mobilities, MobilityFields)
        \o FieldsOf("Relative permeability grid", state.relative_permeabilities,
                    RelPermFields)
        \o FieldsOf("Capillary pressure grid", state.capillary_pressures,
                    CapillaryFields)

\* The values whose shape is compared with model.grid_shape, in the order of
\* the comparisons, when dtype is None
ChecksWithoutDtype(state) ==
    <<[name |-> <<"Thickness grid", "">>, value |-> state.model.thickness_grid]>>
        \o FieldsOf("Fluid property grid", state.model.fluid_properties, FluidFields)
        \o RockChecksWithoutDtype(state.model.rock_properties)
        \o GroupChecks(state)

\* The same when a dtype is given: the permeability x, y, z after the rock
\* fields that are arrays, and the thickness and the saturation history last
ChecksWithDtype(state) ==
    <<[name |-> <<"Thickness grid", "">>, value |-> state.model.thickness_grid]>>
        \o FieldsOf("Fluid property grid", state.model.fluid_properties, FluidFields)
        \o RockChecksWithDtype(state.model.rock_properties)
        \o GroupChecks(state)
        \o <<[name |-> <<"Thickness grid", "">>, value |-> state.model.thickness_grid]>>
        \o FieldsOf("Saturation history", state.model.saturation_history, HistoryFields)

\* isinstance(value, np.ndarray) and value.shape != model_shape
ShapeMismatch(value, model_shape) ==
    value.type = "ndarray" /\ value.shape # model_shape

\* grid.astype(dtype) for a floating grid; any other value as it is
_validate_array(value, dtype) ==
    IF value.type = "ndarray" /\ value.dtype \in {"float32", "float64"}
    THEN [value EXCEPT !.dtype = dtype]
    ELSE value

CoerceFields(object, dtype) ==
    [f \in DOMAIN object |->
        IF object[f].type = "RockPermeability"
        THEN RockPermeability(_validate_array(object[f].x, dtype),
                              _validate_array(object[f].y, dtype),
                              _validate_array(object[f].z, dtype))
        ELSE _validate_array(object[f], dtype)]

\* The ModelState rebuilt from the coerced grids
CoercedState(state, dtype) ==
    [model |-> [grid_shape |-> state.model.grid_shape,
                thickness_grid |-> _validate_array(state.model.thickness_grid, dtype),
                fluid_properties |-> CoerceFields(state.model.fluid_properties, dtype),
                rock_properties |-> CoerceFields(state.model.rock_properties, dtype),
                saturation_history |->
                    CoerceFields(state.model.saturation_history, dtype)],
     injection |-> CoerceFields(state.injection, dtype),
     production |-> CoerceFields(state.production, dtype),
     relative_permeabilities |-> CoerceFields(state.relative_permeabilities, dtype),
     relative_mobilities |-> CoerceFields(state.relative_mobilities, dtype),
     capillary_pressures |-> CoerceFields(state.capillary_pressures, dtype)]

\* validate_state(state, dtype); is_argument tells that the state returned is
\* the object that was passed
validate_state(a) ==
    LET dtype == IF a.dtype = "global" THEN a.get_dtype ELSE a.dtype
        checks == IF dtype = "None" THEN ChecksWithoutDtype(a.state)
                  ELSE ChecksWithDtype(a.state)
        failed == {i \in 1..Len(checks) :
                      ShapeMismatch(checks[i].value, a.state.model.grid_shape)}
    IN  IF failed # {}
        THEN [status |-> "raised", exception |-> "ValidationError",
              error |-> checks[CHOOSE i \in failed : \A j \in failed : i <= j].name,
              state |-> None, is_argument |-> FALSE]
        ELSE IF dtype = "None"
        THEN [status |-> "returned", exception |-> "none", error |-> <<>>,
              state |-> a.state, is_argument |-> TRUE]
        ELSE [status |-> "returned", exception |-> "none", error |-> <<>>,
              state |-> CoercedState(a.state, dtype), is_argument |-> FALSE]

\* Most grids of a state that have another shape than the model
MaxWrong == 2

ModelShape == <<2, 2>>
OtherShape == <<2, 3>>

GridSlots ==
    {<<"model", "thickness_grid">>, <<"fluid_properties", "pressure_grid">>,
     <<"rock_properties", "porosity_grid">>,
     <<"absolute_permeability", "x">>, <<"absolute_permeability", "y">>,
     <<"absolute_permeability", "z">>}
        \cup {<<"injection", RateFields[i]>> : i \in 1..3}
        \cup {<<"production", RateFields[i]>> : i \in 1..3}
        \cup {<<"relative_mobilities", MobilityFields[i]>> : i \in 1..3}
        \cup {<<"relative_permeabilities", RelPermFields[i]>> : i \in 1..3}
        \cup {<<"capillary_pressures", CapillaryFields[i]>> : i \in 1..2}
        \cup {<<"saturation_history", HistoryFields[i]>> : i \in 1..4}

\* The sets of at most n slots
RECURSIVE SlotSets(_)
SlotSets(n) ==
    IF n = 0 THEN {{}}
    ELSE SlotSets(n - 1) \cup {w \cup {x} : w \in SlotSets(n - 1), x \in GridSlots}

\* A state whose grids have the shape of the model, except the wrong ones;
\* the rate grids named in absent are None; the imbibition flags are bool
StateWith(wrong, absent) ==
    LET grid(slot, dtype) ==
            IF slot \in absent THEN NoneValue
            ELSE Array(IF slot \in wrong THEN OtherShape ELSE ModelShape, dtype)
        group(label, fields) ==
            [f \in {fields[i] : i \in 1..Len(fields)} |-> grid(<<label, f>>, "float64")]
    IN  [model |->
            [grid_shape |-> ModelShape,
             thickness_grid |-> grid(<<"model", "thickness_grid">>, "float64"),
             fluid_properties |-> group("fluid_properties", FluidFields),
             rock_properties |->
                [compressibility |-> Float,
                 absolute_permeability |->
                    RockPermeability(grid(<<"absolute_permeability", "x">>, "float64"),
                                     grid(<<"absolute_permeability", "y">>, "float64"),
                                     grid(<<"absolute_permeability", "z">>, "float64")),
                 porosity_grid |-> grid(<<"rock_properties", "porosity_grid">>, "float64")],
             saturation_history |->
                [f \in {HistoryFields[i] : i \in 1..4} |->
                    grid(<<"saturation_history", f>>,
                         IF f \in {"water_imbibition_flag_grid", "gas_imbibition_flag_grid"}
                         THEN "bool" ELSE "float64")]],
         injection |-> group("injection", RateFields),
         production |-> group("production", RateFields),
         relative_permeabilities |-> group("relative_permeabilities", RelPermFields),
         relative_mobilities |-> group("relative_mobilities", MobilityFields),
         capillary_pressures |-> group("capillary_pressures", CapillaryFields)]

ValidateCalls ==
    [state : {StateWith(wrong, absent) :
                 wrong \in SlotSets(MaxWrong),
                 absent \in {{}, {<<"injection", "gas">>, <<"production", "water">>}}},
     dtype : {"None", "float32", "global"},
     get_dtype : {"float32", "float64"}]

InitValidate ==
    /\ validateArgs \in ValidateCalls
    /\ validateResult = [status |-> "pending", exception |-> "none", error |-> <<>>,
                         state |-> None, is_argument |-> FALSE]

\* One call of validate_state
ValidateState ==
    /\ validateArgs # None
    /\ validateResult.status = "pending"
    /\ validateResult' = validate_state(validateArgs)
    /\ UNCHANGED <<validateArgs, timeVars, registrarVars,
                   satVars, elevVars, dipVars, gridVars>>

-----------------------------------------------------------------------------
(* make_serializable_type_registrar.  A registrar made with the default    *)
(* key_attr "__type__", no key_factory and override=False is called from   *)
(* several threads.  Classes are identified by their names.  A class       *)
(* declares "__type__" itself, inherits it from its base, or has none;      *)
(* every class that has none in the table below has a base without one, so *)
(* the setattr of the registrar changes the key of no other class.         *)

MaxRegistrations == 2
\* The threads that call the registrar
Threads == {"main", "worker"}

BaseClass == "Serializable"
\* name |-> base class and the "__type__" written in the class body
ClassTable ==
    [Serializable  |-> [base |-> "",             type |-> ""],
     Injector      |-> [base |-> "Serializable", type |-> "injector"],
     Producer      |-> [base |-> "Serializable", type |-> "injector"],
     SmartInjector |-> [base |-> "Injector",     type |-> ""],
     Aquifer       |-> [base |-> "Serializable", type |-> ""],
     Plain         |-> [base |-> "",             type |-> ""]]
RegisteredClasses == {"Injector", "Producer", "SmartInjector", "Aquifer", "Plain"}

\* cls.__name__.lower()
LowerName ==
    [Serializable |-> "serializable", Injector |-> "injector",
     Producer |-> "producer", SmartInjector |-> "smartinjector",
     Aquifer |-> "aquifer", Plain |-> "plain"]

RECURSIVE issubclass(_, _)
issubclass(cls, other) ==
    IF cls = other THEN TRUE
    ELSE IF ClassTable[cls].base = "" THEN FALSE
    ELSE issubclass(ClassTable[cls].base, other)

\* getattr(cls, "__type__", None), "" for None: the attribute of the class
\* or of the nearest base that has one
RECURSIVE getattr_type(_)
getattr_type(cls) ==
    IF ClassTable[cls].type # "" THEN ClassTable[cls].type
    ELSE IF ClassTable[cls].base = "" THEN ""
    ELSE getattr_type(ClassTable[cls].base)

\* The key under which registrar(cls) registers cls
KeyOf(cls) == IF getattr_type(cls) # "" THEN getattr_type(cls) ELSE LowerName[cls]

\* not override and key in registry and not issubclass(cls, registry[key])
already_registered(override, key, cls, reg) ==
    ~override /\ key \in DOMAIN reg /\ ~issubclass(cls, reg[key])

Outside == [pc |-> "outside", cls |-> "", key |-> "", outcome |-> "none", calls |-> 0]

InitRegistrar ==
    /\ registry = [k \in {} |-> ""]
    /\ lock = <<>>
    /\ thread = [t \in Threads |-> Outside]

\* Thread t calls registrar(cls): the subclass test and the key
RegistrarEnter(t, cls) ==
    /\ thread # None
    /\ thread[t].pc = "outside"
    /\ thread[t].calls < MaxRegistrations
    /\ thread' = [thread EXCEPT ![t] =
            IF ~issubclass(cls, BaseClass)
            THEN [pc |-> "outside", cls |-> cls, key |-> "",
                  outcome |-> "ValidationError", calls |-> @.calls + 1]
            ELSE [pc |-> "check", cls |-> cls, key |-> KeyOf(cls),
                  outcome |-> "none", calls |-> @.calls + 1]]
    /\ UNCHANGED <<registry, lock>>
    /\ UNCHANGED <<timeVars, validateVars, satVars, elevVars, dipVars, gridVars>>

\* Thread t tests whether its key is taken
RegistrarCheck(t) ==
    /\ thread # None
    /\ thread[t].pc = "check"
    /\ thread' = [thread EXCEPT ![t] =
            IF already_registered(FALSE, @.key, @.cls, registry)
            THEN [@ EXCEPT !.pc = "outside", !.outcome = "ValidationError"]
            ELSE [@ EXCEPT !.pc = "acquire"]]
    /\ UNCHANGED <<registry, lock>>
    /\ UNCHANGED <<timeVars, validateVars, satVars, elevVars, dipVars, gridVars>>

\* with lock: entered when no thread holds the lock
RegistrarAcquire(t) ==
    /\ thread # None
    /\ thread[t].pc = "acquire"
    /\ lock = <<>>
    /\ lock' = <<t>>
    /\ thread' = [thread EXCEPT ![t].pc = "write"]
    /\ UNCHANGED registry
    /\ UNCHANGED <<timeVars, validateVars, satVars, elevVars, dipVars, gridVars>>

\* registry[key] = cls
RegistrarWrite(t) ==
    /\ thread # None
    /\ thread[t].pc = "write"
    /\ registry' = [k \in DOMAIN registry \cup {thread[t].key} |->
                        IF k = thread[t].key THEN thread[t].cls ELSE registry[k]]
    /\ thread' = [thread EXCEPT ![t].pc = "release"]
    /\ UNCHANGED lock
    /\ UNCHANGED <<timeVars, validateVars, satVars, elevVars, dipVars, gridVars>>

\* The end of the with block, and return cls
RegistrarRelease(t) ==
    /\ thread # None
    /\ thread[t].pc = "release"
    /\ lock' = <<>>
    /\ thread' = [thread EXCEPT ![t] = [@ EXCEPT !.pc = "outside", !.outcome = "returned"]]
    /\ UNCHANGED registry
    /\ UNCHANGED <<timeVars, validateVars, satVars, elevVars, dipVars, gridVars>>

-----------------------------------------------------------------------------
(* Specifications: one per component, each making the calls of its         *)
(* component on every input of its Init.                                   *)

\* No call of an array utility, of a ModelState or of a registrar was made
GridIdle == CoarsenIdle /\ PermIdle /\ FlattenIdle /\ LayeredIdle /\ PadIdle /\ AppIdle

SatInit == InitSat /\ ElevIdle /\ DipIdle /\ GridIdle
SatNext == BuildSaturationGrids
SatSpec == SatInit /\ [][SatNext]_vars

ElevInit == InitElev /\ SatIdle /\ DipIdle /\ GridIdle
ElevNext == BuildDepthGrid \/ BuildElevationGrid
ElevSpec == ElevInit /\ [][ElevNext]_vars

DipInit == InitDip /\ SatIdle /\ ElevIdle /\ GridIdle
DipNext == ApplyStructuralDip
DipSpec == DipInit /\ [][DipNext]_vars

\* The components that are not array utilities made no call: the builders,
\* ModelState and the registrar
CoreIdle == SatIdle /\ ElevIdle /\ DipIdle /\ AppIdle

CoarsenInit ==
    InitCoarsen /\ CoreIdle /\ PermIdle /\ FlattenIdle /\ LayeredIdle /\ PadIdle
CoarsenNext == CoarsenGrid
CoarsenSpec == CoarsenInit /\ [][CoarsenNext]_vars

PermInit ==
    InitPerm /\ CoreIdle /\ CoarsenIdle /\ FlattenIdle /\ LayeredIdle /\ PadIdle
PermNext == CoarsenPermeabilityGrids
PermSpec == PermInit /\ [][PermNext]_vars

FlattenInit ==
    InitFlatten /\ CoreIdle /\ CoarsenIdle /\ PermIdle /\ LayeredIdle /\ PadIdle
FlattenNext == FlattenMultilayerGridToSurface
FlattenSpec == FlattenInit /\ [][FlattenNext]_vars

LayeredInit ==
    InitLayered /\ CoreIdle /\ CoarsenIdle /\ PermIdle /\ FlattenIdle /\ PadIdle
LayeredNext == BuildLayeredGrid
LayeredSpec == LayeredInit /\ [][LayeredNext]_vars

PadInit ==
    InitPad /\ CoreIdle /\ CoarsenIdle /\ PermIdle /\ FlattenIdle /\ LayeredIdle
PadNext == PadGrid \/ UnpadGrid \/ GetPadMask
PadSpec == PadInit /\ [][PadNext]_vars

\* The components below made no call
BuildersIdle ==
    /\ SatIdle /\ ElevIdle /\ DipIdle
    /\ CoarsenIdle /\ PermIdle /\ FlattenIdle /\ LayeredIdle /\ PadIdle

TimeInit == InitTime /\ ValidateIdle /\ RegistrarIdle /\ BuildersIdle
TimeNext == TimeInDays \/ TimeInWeeks \/ TimeInYears
TimeSpec == TimeInit /\ [][TimeNext]_vars

ValidateInit == InitValidate /\ TimeIdle /\ RegistrarIdle /\ BuildersIdle
ValidateNext == ValidateState
ValidateSpec == ValidateInit /\ [][ValidateNext]_vars

RegistrarInit == InitRegistrar /\ TimeIdle /\ ValidateIdle /\ BuildersIdle
RegistrarNext ==
    \/ \E t \in Threads, cls \in RegisteredClasses : RegistrarEnter(t, cls)
    \/ \E t \in Threads : RegistrarCheck(t)
    \/ \E t \in Threads : RegistrarAcquire(t)
    \/ \E t \in Threads : RegistrarWrite(t)
    \/ \E t \in Threads : RegistrarRelease(t)
RegistrarSpec == RegistrarInit /\ [][RegistrarNext]_vars

\* One call of any of the operations that take arrays, on calls that return
\* and calls that raise
FrameSatCalls ==
    [depth_grid : [TwoCells -> {One, R(3, 1), R(5, 1)}],
     gas_oil_contact : {R(2, 1), R(6, 1)},
     oil_water_contact : {R(4, 1)},
     connate_water_saturation_grid : [TwoCells -> {Quarter}],
     residual_oil_saturation_water_grid : [TwoCells -> {Quarter}],
     residual_oil_saturation_gas_grid : [TwoCells -> {Quarter}],
     residual_gas_saturation_grid : [TwoCells -> {Quarter}],
     porosity_grid : [TwoCells -> {Zero, R(1, 5)}],
     use_transition_zones : BOOLEAN,
     gas_oil_transition_thickness : {One},
     oil_water_transition_thickness : {One},
     transition_curvature_exponent : {1}]

FrameDipCalls ==
    {a \in DipCalls : a.cell_dimension = <<One, One>> /\ a.dip_azimuth = 37}

FrameInit ==
    \/ /\ satArgs \in FrameSatCalls /\ satResult = Pending
       /\ ElevIdle /\ DipIdle /\ GridIdle
    \/ /\ dipArgs \in FrameDipCalls
       /\ dipResult = [status |-> "pending", exception |-> "none", error |-> "none",
                       grid |-> None]
       /\ SatIdle /\ ElevIdle /\ GridIdle
    \/ /\ coarsenArgs \in CoarsenErrorCalls \cup CoarsenExampleCalls
       /\ coarsenResult = PendingCall
       /\ CoreIdle /\ PermIdle /\ FlattenIdle /\ LayeredIdle /\ PadIdle
    \/ /\ permArgs \in PermErrorCalls \cup PermExampleCalls
       /\ permResult = PendingPerm
       /\ CoreIdle /\ CoarsenIdle /\ FlattenIdle /\ LayeredIdle /\ PadIdle
    \/ /\ flattenArgs \in NaNWeightCalls \cup CustomCalls
       /\ flattenResult = PendingCall
       /\ CoreIdle /\ CoarsenIdle /\ PermIdle /\ LayeredIdle /\ PadIdle
    \/ LayeredInit
    \/ PadInit
FrameNext ==
    \/ BuildSaturationGrids
    \/ ApplyStructuralDip
    \/ CoarsenGrid
    \/ CoarsenPermeabilityGrids
    \/ FlattenMultilayerGridToSurface
    \/ BuildLayeredGrid
    \/ PadGrid
FrameSpec == FrameInit /\ [][FrameNext]_vars

-----------------------------------------------------------------------------
(* Vocabulary of the properties.  These definitions restate the spec's     *)
(* words on the arguments and the result of the call; they use none of the *)
(* operators that model the code.                                          *)

SatReturned == satResult.status = "returned"
SatRaised == satResult.status = "raised"
SatDone == SatReturned \/ SatRaised
SatCells == DOMAIN satArgs.depth_grid \cap DOMAIN satArgs.porosity_grid
SameShapes ==
    /\ DOMAIN satArgs.porosity_grid = DOMAIN satArgs.depth_grid
    /\ DOMAIN satArgs.connate_water_saturation_grid = DOMAIN satArgs.depth_grid
    /\ DOMAIN satArgs.residual_oil_saturation_water_grid = DOMAIN satArgs.depth_grid
    /\ DOMAIN satArgs.residual_oil_saturation_gas_grid = DOMAIN satArgs.depth_grid
    /\ DOMAIN satArgs.residual_gas_saturation_grid = DOMAIN satArgs.depth_grid

\* A cell is active iff its porosity is finite and > 0
ActiveCell(c) == satArgs.porosity_grid[c][2] # 0 /\ satArgs.porosity_grid[c][1] > 0

Depth(c) == satArgs.depth_grid[c]
GOC == satArgs.gas_oil_contact
OWC == satArgs.oil_water_contact
Swc(c) == satArgs.connate_water_saturation_grid[c]
SorW(c) == satArgs.residual_oil_saturation_water_grid[c]
SorG(c) == satArgs.residual_oil_saturation_gas_grid[c]
Sgr(c) == satArgs.residual_gas_saturation_grid[c]
Hgo == satArgs.gas_oil_transition_thickness
How == satArgs.oil_water_transition_thickness
Transition == satArgs.use_transition_zones

Sw(c) == satResult.grids.water_saturation[c]
So(c) == satResult.grids.oil_saturation[c]
Sg(c) == satResult.grids.gas_saturation[c]

Is(c, sw, so, sg) == Sw(c) = sw /\ So(c) = so /\ Sg(c) = sg
GasCapValues(c) == Is(c, Swc(c), SorG(c), RSub(RSub(One, SorG(c)), Swc(c)))
OilZoneValues(c) == Is(c, Swc(c), RSub(RSub(One, Swc(c)), Sgr(c)), Sgr(c))
WaterZoneValues(c) == Is(c, RSub(One, SorW(c)), SorW(c), Zero)

InUnit(x) == RLe(Zero, x) /\ RLe(x, One)
\* Some endpoint of cell c lies outside [0, 1]
RangeViolatedAt(c) == ~(InUnit(Swc(c)) /\ InUnit(SorW(c)) /\ InUnit(SorG(c)) /\ InUnit(Sgr(c)))
\* Swc + Sor_g <= 1, Swc + Sgr <= 1 or Sor_w + Sgr <= 1 fails in cell c
JointViolatedAt(c) ==
    \/ RGt(RAdd(Swc(c), SorG(c)), One)
    \/ RGt(RAdd(Swc(c), Sgr(c)), One)
    \/ RGt(RAdd(SorW(c), Sgr(c)), One)

\* GOC + h_go/2 and OWC - h_ow/2
GoBandBottom == RAdd(GOC, RDiv(Hgo, R(2, 1)))
GoBandTop == RSub(GOC, RDiv(Hgo, R(2, 1)))
OwBandTop == RSub(OWC, RDiv(How, R(2, 1)))
OwBandBottom == RAdd(OWC, RDiv(How, R(2, 1)))

TransitionParametersBad ==
    \/ RLe(Hgo, Zero)
    \/ RLe(How, Zero)
    \/ satArgs.transition_curvature_exponent <= 0
    \/ RGe(GoBandBottom, OwBandTop)

\* The validation list of the spec, except for the transition parameters
GridsAndContactsValid ==
    /\ RLt(GOC, OWC)
    /\ SameShapes
    /\ \A c \in SatCells : ActiveCell(c) => ~RangeViolatedAt(c) /\ ~JointViolatedAt(c)

ValidCall == GridsAndContactsValid /\ (Transition => ~TransitionParametersBad)

SumIsOneInActiveCells ==
    \A c \in SatCells : ActiveCell(c) => RAdd(RAdd(Sw(c), So(c)), Sg(c)) = One

-----------------------------------------------------------------------------
C3_SharpContactsHalfOpen ==
    (SatReturned /\ ~Transition) =>
        \A c \in SatCells :
            ActiveCell(c) =>
                /\ Depth(c) = GOC => OilZoneValues(c)
                /\ Depth(c) = OWC => WaterZoneValues(c)
                /\ RLt(Depth(c), GOC) => GasCapValues(c)

\* A sharp-contact call returned with an active cell on the GOC and an active
\* cell on the OWC, the zones' values being different there.
C3_Witness ==
    /\ SatReturned /\ ~Transition
    /\ \E c \in SatCells : ActiveCell(c) /\ Depth(c) = GOC /\ ~GasCapValues(c)
    /\ \E c \in SatCells : ActiveCell(c) /\ Depth(c) = OWC /\ ~OilZoneValues(c)

(* C4.  In transition mode the band formulas agree with the neighbouring   *)
(* zone formulas at both band edges: gas-cap values at GOC - h_go/2,       *)
(* oil-zone values at GOC + h_go/2 and at OWC - h_ow/2, water-zone values  *)
(* at OWC + h_ow/2, for every positive exponent.                           *)
C4_BandEdgesAgree ==
    (SatReturned /\ Transition) =>
        \A c \in SatCells :
            ActiveCell(c) =>
                /\ Depth(c) = GoBandTop => GasCapValues(c)
                /\ Depth(c) = GoBandBottom => OilZoneValues(c)
                /\ Depth(c) = OwBandTop => OilZoneValues(c)
                /\ Depth(c) = OwBandBottom => WaterZoneValues(c)

\* A transition-mode call returned with an active cell on the lower edge of
\* the gas-oil band, where the gas-cap values are not the oil-zone values.
C4_Witness ==
    /\ SatReturned /\ Transition
    /\ \E c \in SatCells : ActiveCell(c) /\ Depth(c) = GoBandBottom /\ ~GasCapValues(c)

(* C5.  build_saturation_grids raises ValidationError and returns no grids *)
(* whenever GOC >= OWC, and whenever an endpoint grid holds a value        *)
(* outside [0, 1] in an active cell, in both modes.                        *)
C5_RejectsContactsAndRanges ==
    SatDone =>
        ((RGe(GOC, OWC) \/ \E c \in SatCells : ActiveCell(c) /\ RangeViolatedAt(c))
            => SatRaised /\ satResult.grids = None)

\* A sharp-contact call with GOC = OWC and no other fault raised.
C5_Witness ==
    /\ SatRaised /\ GOC = OWC /\ SameShapes /\ ~Transition
    /\ \A c \in SatCells : ~RangeViolatedAt(c) /\ ~JointViolatedAt(c)

(* C6.  The range checks and the joint constraints are evaluated over      *)
(* active cells only: a call that violates them only in inactive cells is  *)
(* accepted and those cells come out as (0,0,0); a call that violates any  *)
(* of them in an active cell is rejected.                                  *)
C6_ChecksOverActiveCellsOnly ==
    SatDone =>
        /\ (\E c \in SatCells : ActiveCell(c) /\ (RangeViolatedAt(c) \/ JointViolatedAt(c)))
              => SatRaised
        /\ ValidCall => /\ SatReturned
                        /\ \A c \in SatCells : ~ActiveCell(c) => Is(c, Zero, Zero, Zero)

\* A call returned although an inactive cell holds an endpoint outside [0, 1],
\* beside an active cell.
C6_Witness ==
    /\ SatReturned
    /\ \E c \in SatCells : ~ActiveCell(c) /\ RangeViolatedAt(c)
    /\ \E c \in SatCells : ActiveCell(c)

(* C7.  With transition zones, a thickness <= 0, an exponent <= 0 or       *)
(* GOC + h_go/2 >= OWC - h_ow/2 (touching bands included) raises; without  *)
(* transition zones none of the three parameters causes a failure.         *)
C7_TransitionParameters ==
    SatDone =>
        /\ (Transition /\ TransitionParametersBad) => SatRaised
        /\ (~Transition /\ GridsAndContactsValid) => SatReturned

\* A transition-mode call whose bands exactly touch, valid otherwise, raised.
C7_Witness ==
    /\ SatRaised /\ Transition /\ GridsAndContactsValid
    /\ RGt(Hgo, Zero) /\ RGt(How, Zero) /\ satArgs.transition_curvature_exponent > 0
    /\ GoBandBottom = OwBandTop

(* C8.  Suspicious but valid inputs never abort the call: when Sor_g >     *)
(* Sor_w in an active cell, when OWC - GOC is below the configured         *)
(* minimum, or when less than 1 unit of oil zone remains between the       *)
(* bands, a warning is emitted, nothing is raised and the normalized       *)
(* grids are returned.                                                     *)
C8_WarningsDoNotAbort ==
    (SatDone /\ ValidCall) =>
        /\ SatReturned
        /\ SumIsOneInActiveCells
        /\ (\E c \in SatCells : ActiveCell(c) /\ RGt(SorG(c), SorW(c)))
              => "sor_gas_gt_sor_water" \in satResult.warnings
        /\ RLt(RSub(OWC, GOC), R(MIN_OIL_ZONE_THICKNESS, 1))
              => "thin_oil_column" \in satResult.warnings
        /\ (Transition /\ RLt(RSub(OwBandTop, GoBandBottom), One))
              => "thin_oil_between_transitions" \in satResult.warnings

\* A call that met all three suspicious conditions returned.
C8_Witness ==
    /\ SatReturned
    /\ \E c \in SatCells : ActiveCell(c) /\ RGt(SorG(c), SorW(c))
    /\ RLt(RSub(OWC, GOC), R(MIN_OIL_ZONE_THICKNESS, 1))
    /\ Transition /\ RLt(RSub(OwBandTop, GoBandBottom), One)

-----------------------------------------------------------------------------
BothBuilt == depth_out # None /\ elevation_out # None
LastLayer == Extent(thickness_grid, 3) - 1
\* Cells x and y lie in the same column (i, j)
SameColumn(x, y) == x[1] = y[1] /\ x[2] = y[2]
Reflected(x) == <<x[1], x[2], LastLayer - x[3]>>

(* C9 as stated.  For any thickness grid and any fixed column (i, j),      *)
(* depth[k] + elevation[nz-1-k] has the same value for every layer k.      *)
C9_ReflectedSumConstant ==
    BothBuilt =>
        \A x, y \in DOMAIN thickness_grid :
            SameColumn(x, y) =>
                RAdd(depth_out[x], elevation_out[Reflected(x)])
                    = RAdd(depth_out[y], elevation_out[Reflected(y)])

(* C9 as amended.  For any thickness grid and any fixed column (i, j),     *)
(* depth[k] + elevation[k] has the same value for every layer k.           *)
C9_SumConstant ==
    BothBuilt =>
        \A x, y \in DOMAIN thickness_grid :
            SameColumn(x, y) =>
                RAdd(depth_out[x], elevation_out[x]) = RAdd(depth_out[y], elevation_out[y])

\* Both grids are built from a column of at least two layers of different,
\* non-zero thickness.
C9_Witness ==
    /\ BothBuilt
    /\ \E x, y \in DOMAIN thickness_grid :
          /\ SameColumn(x, y)
          /\ thickness_grid[x] # thickness_grid[y]
          /\ thickness_grid[x] # Zero /\ thickness_grid[y] # Zero

(* C10.  apply_structural_dip with dip_angle = 0 returns a grid equal to   *)
(* the input grid in every cell, for every azimuth in [0, 360), for both   *)
(* conventions and for any cell dimensions.                                *)
C10_ZeroDipIsIdentity ==
    (dipResult.status = "returned" /\ dipArgs.dip_angle = 0) =>
        \A x \in DOMAIN dipArgs.elevation_grid :
            dipResult.grid[x] = dipArgs.elevation_grid[x]

\* A call with dip angle 0 and an azimuth oblique to both axes returned, on a
\* grid that has columns away from the origin in x and in y.
C10_Witness ==
    /\ dipResult.status = "returned"
    /\ dipArgs.dip_angle = 0 /\ dipArgs.dip_azimuth = 37
    /\ \E x \in DOMAIN dipArgs.elevation_grid : x[1] > 0 /\ x[2] > 0

\* o(i, j) = (i*dx*sin(azimuth) + j*dy*cos(azimuth)) * tan(angle), for the
\* column of cell x of the call
PlanarOffset(x) ==
    RMul(RAdd(RMul(RMul(R(x[1], 1), dipArgs.cell_dimension[1]), Sin(dipArgs.dip_azimuth)),
              RMul(RMul(R(x[2], 1), dipArgs.cell_dimension[2]), Cos(dipArgs.dip_azimuth))),
         Tan(dipArgs.dip_angle))

(* C11.  apply_structural_dip changes every cell of column (i, j) by the   *)
(* same offset o(i, j): the downward convention returns input + o(i, j),   *)
(* the upward convention input - o(i, j); the change is the same in every  *)
(* layer k of a column, and column (0, 0) is returned unchanged.           *)
C11_PlanarOffset ==
    dipResult.status = "returned" =>
        /\ \A x \in DOMAIN dipArgs.elevation_grid :
              /\ dipArgs.elevation_direction = "downward" =>
                    dipResult.grid[x] = RAdd(dipArgs.elevation_grid[x], PlanarOffset(x))
              /\ dipArgs.elevation_direction = "upward" =>
                    dipResult.grid[x] = RSub(dipArgs.elevation_grid[x], PlanarOffset(x))
              /\ (x[1] = 0 /\ x[2] = 0) => dipResult.grid[x] = dipArgs.elevation_grid[x]
        /\ \A x, y \in DOMAIN dipArgs.elevation_grid :
              (x[1] = y[1] /\ x[2] = y[2]) =>
                  RSub(dipResult.grid[x], dipArgs.elevation_grid[x])
                      = RSub(dipResult.grid[y], dipArgs.elevation_grid[y])

\* An upward call returned on a grid with two layers, with a non-zero offset
\* in a column away from the origin.
C11_Witness ==
    /\ dipResult.status = "returned"
    /\ dipArgs.elevation_direction = "upward"
    /\ \E x, y \in DOMAIN dipArgs.elevation_grid :
          /\ x[1] = y[1] /\ x[2] = y[2] /\ x[3] # y[3]
          /\ PlanarOffset(x) # Zero
          /\ dipResult.grid[x] # dipArgs.elevation_grid[x]

-----------------------------------------------------------------------------
(* coarsen_grid: what the caller observes                                  *)

CoarsenReturned == coarsenResult.status = "returned"
CoarsenData == coarsenArgs.data
CoarsenBlockSize == coarsenArgs.batch_size

\* The input cells of the block of output cell o: along every axis the
\* indices o*b .. o*b + b - 1 that lie inside the input array
InputBlock(o) ==
    {x \in DOMAIN CoarsenData : \A d \in 1..Len(o) :
        /\ o[d] * CoarsenBlockSize[d] <= x[d]
        /\ x[d] < (o[d] + 1) * CoarsenBlockSize[d]}

\* ceil(n / b)
CeilDiv(n, b) == (n + b - 1) \div b

\* Some extent of the input is not a multiple of its block size
PartialBlocks ==
    \E d \in 1..Len(CoarsenBlockSize) :
        Extent(CoarsenData, d) % CoarsenBlockSize[d] # 0

\* The documented 4x4 example and its documented result
MeanExample ==
    coarsenArgs.data = Arange(<<4, 4>>) /\ coarsenArgs.batch_size = <<2, 2>>
        /\ coarsenArgs.method = "mean"
MeanExampleResult ==
    [o \in Indices(<<2, 2>>) |->
        CASE o = <<0, 0>> -> R(5, 2) [] o = <<0, 1>> -> R(9, 2)
          [] o = <<1, 0>> -> R(21, 2) [] o = <<1, 1>> -> R(25, 2)]

\* The cells of the block of o that hold a number
NumbersIn(o) == {x \in InputBlock(o) : CoarsenData[x] # NaN}

(* C12.  coarsen_grid with method 'mean' returns, for every output cell,   *)
(* the arithmetic mean of the input cells of its block, a cell that holds  *)
(* NaN, the marker of "no value", not being counted (NaN when the block    *)
(* holds no value); the 4x4 example gives [[2.5, 4.5], [10.5, 12.5]].      *)
C12_MeanOfBlock ==
    (CoarsenReturned /\ coarsenArgs.method = "mean") =>
        /\ \A o \in DOMAIN coarsenResult.grid :
              coarsenResult.grid[o]
                  = IF NumbersIn(o) = {} THEN NaN
                    ELSE RDiv(SumOver(CoarsenData, NumbersIn(o)),
                              R(Cardinality(NumbersIn(o)), 1))
        /\ MeanExample => coarsenResult.grid = MeanExampleResult

\* The documented example returned
C12_Witness == CoarsenReturned /\ MeanExample

\* The documented 4x4x4 example
MaxExample ==
    coarsenArgs.data = Arange(<<4, 4, 4>>) /\ coarsenArgs.batch_size = <<2, 2, 2>>
        /\ coarsenArgs.method = "max"

\* The result the documentation gives for it
MaxExampleDocumented ==
    [o \in Indices(<<2, 2, 2>>) |->
        CASE o = <<0, 0, 0>> -> R(5, 1) [] o = <<0, 0, 1>> -> R(7, 1)
          [] o = <<0, 1, 0>> -> R(13, 1) [] o = <<0, 1, 1>> -> R(15, 1)
          [] o = <<1, 0, 0>> -> R(21, 1) [] o = <<1, 0, 1>> -> R(23, 1)
          [] o = <<1, 1, 0>> -> R(29, 1) [] o = <<1, 1, 1>> -> R(31, 1)]

\* The largest value of every 2x2x2 block of it
MaxExampleBlockMaxima ==
    [o \in Indices(<<2, 2, 2>>) |->
        CASE o = <<0, 0, 0>> -> R(21, 1) [] o = <<0, 0, 1>> -> R(23, 1)
          [] o = <<0, 1, 0>> -> R(29, 1) [] o = <<0, 1, 1>> -> R(31, 1)
          [] o = <<1, 0, 0>> -> R(53, 1) [] o = <<1, 0, 1>> -> R(55, 1)
          [] o = <<1, 1, 0>> -> R(61, 1) [] o = <<1, 1, 1>> -> R(63, 1)]

C14_PaddingChangesNothing ==
    CoarsenReturned =>
        /\ DOMAIN coarsenResult.grid
              = Indices([d \in 1..Len(CoarsenBlockSize) |->
                            CeilDiv(Extent(CoarsenData, d), CoarsenBlockSize[d])])
        /\ \A o \in DOMAIN coarsenResult.grid :
              /\ InputBlock(o) # {}
              /\ coarsenResult.grid[o]
                    = Aggregate(coarsenArgs.method, CoarsenData, InputBlock(o),
                                coarsenArgs.epsilon)

\* A call returned on an input with a partial block that holds a number
\* other than 0
C14_Witness ==
    /\ CoarsenReturned /\ PartialBlocks
    /\ \E o \in DOMAIN coarsenResult.grid :
          /\ Cardinality(InputBlock(o)) < Cardinality(BlockOf(o, CoarsenBlockSize,
                 Indices([d \in 1..Len(o) |-> (o[d] + 1) * CoarsenBlockSize[d]])))
          /\ \E x \in NumbersIn(o) : CoarsenData[x] # Zero

-----------------------------------------------------------------------------
(* coarsen_permeability_grids: what the caller observes                    *)

PermReturned == permResult.status = "returned"
PermRaised == permResult.status = "raised"
PermDone == permResult.status # "pending"

\* The harmonic mean n / (1/x1 + ... + 1/xn) of the non-negative values of
\* k over a set of cells: 0 when one of them is 0
HarmonicMean(k, cells) ==
    IF \E x \in cells : k[x] = Zero THEN Zero
    ELSE RDiv(R(Cardinality(cells), 1),
              SumOver([x \in cells |-> RDiv(One, k[x])], cells))

\* The input cells of k in the block of output cell o
PermBlock(k, o) ==
    {x \in DOMAIN k : \A d \in 1..Len(o) :
        /\ o[d] * permArgs.batch_size[d] <= x[d]
        /\ x[d] < (o[d] + 1) * permArgs.batch_size[d]}

\* Harmonic mean along the axis first, arithmetic mean across the other
\* axes second, over the input cells of the block of o
CardwellParsons(k, axis, o) ==
    LET lines == {{x \in PermBlock(k, o) :
                      \A d \in 1..Len(o) : d # axis => x[d] = y[d]} :
                  y \in PermBlock(k, o)}
        along == [line \in lines |-> HarmonicMean(k, line)]
    IN  RDiv(SumOver(along, lines), R(Cardinality(lines), 1))

\* |x - y| < tolerance
Near(x, y, tolerance) ==
    RLt(RSub(x, y), tolerance) /\ RLt(RSub(y, x), tolerance)

PermExample ==
    permArgs.kx = LayeredExample /\ permArgs.ky = LayeredExample
        /\ permArgs.kz = None /\ permArgs.batch_size = <<2, 2>>

(* C15.  coarsen_permeability_grids averages each directional permeability *)
(* by harmonic mean along its own axis first and arithmetic mean across    *)
(* the remaining axes second, each coarse grid being computed from its own *)
(* input grid alone (exactly so when epsilon is 0, the regularisation      *)
(* being the only other term); for block (2,2) over the 4x4 grid whose     *)
(* rows alternate 100 and 1 along x, every kx_coarse cell is within 0.1 of *)
(* 2*100*1/(100+1) = 200/101 and below 50.5.                               *)
C15_HarmonicAlongOwnAxis ==
    PermReturned =>
        /\ permArgs.epsilon = Zero =>
              /\ \A o \in DOMAIN permResult.kx :
                    permResult.kx[o] = CardwellParsons(permArgs.kx, 1, o)
              /\ \A o \in DOMAIN permResult.ky :
                    permResult.ky[o] = CardwellParsons(permArgs.ky, 2, o)
              /\ permArgs.kz # None =>
                    \A o \in DOMAIN permResult.kz :
                        permResult.kz[o] = CardwellParsons(permArgs.kz, 3, o)
        /\ permResult.kx
              = CoarsenDirection(permArgs.kx, 1, permArgs.batch_size, permArgs.epsilon)
        /\ permResult.ky
              = CoarsenDirection(permArgs.ky, 2, permArgs.batch_size, permArgs.epsilon)
        /\ PermExample =>
              \A o \in DOMAIN permResult.kx :
                  /\ Near(permResult.kx[o], R(200, 101), Tenth)
                  /\ RLt(permResult.kx[o], R(101, 2))
                  /\ o \in Indices(<<2, 2>>)

\* The documented example returned, computed with a positive epsilon
C15_Witness ==
    PermReturned /\ PermExample /\ permArgs.epsilon = Tenth

\* The call has one of the faults the validation names
PermCallFaulty ==
    \/ permArgs.batch_size = None
    \/ DOMAIN permArgs.kx # DOMAIN permArgs.ky
    \/ permArgs.kz # None /\ DOMAIN permArgs.kz # DOMAIN permArgs.kx
    \/ \E d \in DOMAIN permArgs.batch_size : permArgs.batch_size[d] < 1
    \/ Len(permArgs.batch_size) # Len(CHOOSE x \in DOMAIN permArgs.kx : TRUE)
    \/ Len(CHOOSE x \in DOMAIN permArgs.kx : TRUE) = 2 /\ permArgs.kz # None
    \/ Len(CHOOSE x \in DOMAIN permArgs.kx : TRUE) = 3 /\ permArgs.kz = None
    \/ Len(CHOOSE x \in DOMAIN permArgs.kx : TRUE) \notin {2, 3}

(* C16.  coarsen_permeability_grids raises ValidationError, and returns    *)
(* nothing, for each of: missing batch_size, input grids of different      *)
(* shapes, a block size < 1, a batch_size whose length differs from the    *)
(* grid rank, a 2-D call that supplies kz, a 3-D call that omits kz, and a *)
(* grid rank other than 2 or 3; a call with none of these returns.         *)
C16_RejectsMalformedCalls ==
    PermDone =>
        /\ PermCallFaulty =>
              /\ PermRaised /\ permResult.error # "none"
              /\ permResult.kx = None /\ permResult.ky = None /\ permResult.kz = None
        /\ ~PermCallFaulty => PermReturned

\* A 2-D call that supplies kz, with nothing else wrong, raised
C16_Witness ==
    /\ PermRaised
    /\ permArgs.kz # None /\ Len(CHOOSE x \in DOMAIN permArgs.kx : TRUE) = 2
    /\ DOMAIN permArgs.kx = DOMAIN permArgs.ky
    /\ permArgs.batch_size # None /\ Len(permArgs.batch_size) = 2
    /\ \A d \in DOMAIN permArgs.batch_size : permArgs.batch_size[d] >= 1

-----------------------------------------------------------------------------
(* flatten_multilayer_grid_to_surface: what the caller observes            *)

FlattenReturned == flattenResult.status = "returned"
FlattenRaised == flattenResult.status = "raised"
FlattenGrid == flattenArgs.multilayer_grid
FlattenWeightGrid == flattenArgs.weights
WeightedMean == flattenArgs.strategy = "weighted_mean"

\* The layers of column c
Layers(c) == {x \in DOMAIN FlattenGrid : x[1] = c[1] /\ x[2] = c[2]}

\* Every value and weight of the call is a number
AllNumbers ==
    /\ \A x \in DOMAIN FlattenGrid : FlattenGrid[x] # NaN
    /\ \A x \in DOMAIN FlattenWeightGrid : FlattenWeightGrid[x] # NaN

\* The sum of the weights of column c
WeightSum(c) == SumOver(FlattenWeightGrid, Layers(c))

(* C17.  flatten_multilayer_grid_to_surface with strategy 'weighted_mean'  *)
(* returns, for every column (i,j), the sum over layers of w*x divided by  *)
(* the sum over layers of w, and NaN for every column whose weight sum is  *)
(* zero; it raises ValidationError when weights are missing or their shape *)
(* differs from the grid's.  (Values and weights are numbers.)             *)
C17_WeightedMean ==
    (WeightedMean /\ flattenResult.status # "pending"
            /\ Len(CHOOSE x \in DOMAIN FlattenGrid : TRUE) = 3) =>
        IF FlattenWeightGrid = None \/ DOMAIN FlattenWeightGrid # DOMAIN FlattenGrid
        THEN FlattenRaised /\ flattenResult.grid = None
        ELSE /\ FlattenReturned
             /\ AllNumbers =>
                   \A c \in DOMAIN flattenResult.grid :
                       flattenResult.grid[c]
                           = IF WeightSum(c) = Zero THEN NaN
                             ELSE RDiv(SumOver([x \in Layers(c) |->
                                                   RMul(FlattenWeightGrid[x],
                                                        FlattenGrid[x])],
                                               Layers(c)),
                                       WeightSum(c))
             /\ \A c \in DOMAIN flattenResult.grid :
                   (\A x \in Layers(c) : FlattenWeightGrid[x] = Zero) =>
                       flattenResult.grid[c] = NaN

\* A weighted mean returned for numbers, with one column of different
\* values under different non-zero weights and one column whose weights
\* cancel
C17_Witness ==
    /\ FlattenReturned /\ WeightedMean /\ AllNumbers
    /\ \E c \in DOMAIN flattenResult.grid :
          /\ WeightSum(c) # Zero
          /\ \E x, y \in Layers(c) :
                /\ FlattenGrid[x] # FlattenGrid[y]
                /\ FlattenWeightGrid[x] # FlattenWeightGrid[y]
                /\ FlattenWeightGrid[x] # Zero /\ FlattenWeightGrid[y] # Zero
    /\ \E c \in DOMAIN flattenResult.grid :
          /\ WeightSum(c) = Zero
          /\ \E x \in Layers(c) : FlattenWeightGrid[x] # Zero

-----------------------------------------------------------------------------
(* layered_grid: what the caller observes                                  *)

LayeredDone == layeredResult.status # "pending"
LayeredReturned == layeredResult.status = "returned"
LayeredShape == layeredArgs.grid_shape
LayerValues == layeredArgs.layer_values

\* The axis of the orientation, 0 for an orientation that names no axis
OrientationAxis ==
    CASE layeredArgs.orientation = "x" -> 1
      [] layeredArgs.orientation = "y" -> 2
      [] layeredArgs.orientation = "z" -> 3
      [] OTHER -> 0

\* The call is one the statement says is rejected
LayeredCallRejected ==
    \/ Len(LayerValues) = 0
    \/ OrientationAxis = 3 /\ Len(LayeredShape) # 3
    \/ OrientationAxis \in 1..Len(LayeredShape)
          /\ Len(LayerValues) # LayeredShape[OrientationAxis]

\* The call is one the statement says returns the layered grid
LayeredCallAccepted ==
    /\ OrientationAxis \in 1..Len(LayeredShape)
    /\ Len(LayerValues) = LayeredShape[OrientationAxis]
    /\ Len(LayerValues) > 0

\* The grid of the requested shape whose cells hold the layer value at their
\* index along the orientation axis
LayeredAsRequested ==
    /\ LayeredReturned
    /\ DOMAIN layeredResult.grid = Indices(LayeredShape)
    /\ \A x \in Indices(LayeredShape) :
          layeredResult.grid[x] = LayerValues[x[OrientationAxis] + 1]

(* C18.  For every supported grid shape (2-D or 3-D) and every orientation *)
(* whose axis exists in that shape, layered_grid with len(layer_values)    *)
(* equal to the extent along that axis returns a grid of the requested     *)
(* shape in which each cell holds the layer value at the cell's index      *)
(* along the orientation axis; an empty layer_values, a length mismatch,   *)
(* or orientation Z on a non-3-D shape raises ValidationError.             *)
C18_LayeredGrid ==
    LayeredDone =>
        /\ LayeredCallAccepted => LayeredAsRequested
        /\ LayeredCallRejected =>
              layeredResult.status = "raised"
                  /\ layeredResult.exception = "ValidationError"

\* What holds of the code: the statement restricted to 3-D shapes, and the
\* rejections for every shape
LayeredGridThreeDimensional ==
    LayeredDone =>
        /\ (LayeredCallAccepted /\ Len(LayeredShape) = 3) => LayeredAsRequested
        /\ (LayeredCallAccepted /\ Len(LayeredShape) = 2) =>
              layeredResult.status = "raised" /\ layeredResult.exception = "IndexError"
        /\ LayeredCallRejected =>
              layeredResult.status = "raised"
                  /\ layeredResult.exception = "ValidationError"

-----------------------------------------------------------------------------
(* pad_grid, unpad_grid, get_pad_mask: what the caller observes            *)

PadWidth == padArgs.pad_width
PadInput == padArgs.grid
PadInputRank == Len(CHOOSE x \in DOMAIN PadInput : TRUE)

\* The extent of the input grid along axis d
PadInputExtent(d) == Cardinality({x[d] : x \in DOMAIN PadInput})

\* The index tuples of the padded shape
PaddedIndices ==
    Indices([d \in 1..PadInputRank |-> PadInputExtent(d) + 2 * PadWidth])

\* Cell x of the padded array is a ghost cell: it lies within the pad width
\* of the low or the high boundary along at least one axis
GhostCell(x) ==
    \E d \in 1..PadInputRank :
        x[d] < PadWidth \/ x[d] >= PadInputExtent(d) + PadWidth

(* C19.  unpad_grid is the inverse of pad_grid: for every 2-D or 3-D grid  *)
(* g and every integer pad width w >= 0 (0 included),                      *)
(* unpad_grid(pad_grid(g, w), w) equals g, where pad_grid extends every    *)
(* axis by w cells on each side with the nearest edge value.               *)
C19_UnpadInvertsPad ==
    (PadInputRank \in {2, 3} /\ unpadded.status # "pending") =>
        /\ DOMAIN padded.grid = PaddedIndices
        /\ \A x \in PaddedIndices : ~GhostCell(x) =>
              padded.grid[x] = PadInput[[d \in 1..PadInputRank |-> x[d] - PadWidth]]
        /\ unpadded.status = "returned"
        /\ unpadded.grid = PadInput

\* What holds of the code: the round trip for every pad width w >= 1, and
\* an array without cells for w = 0
UnpadInvertsPositivePad ==
    (PadInputRank \in {2, 3} /\ unpadded.status # "pending") =>
        /\ unpadded.status = "returned"
        /\ PadWidth >= 1 => unpadded.grid = PadInput
        /\ PadWidth = 0 => DOMAIN unpadded.grid = {}

(* C20.  get_pad_mask(shape, width) returns a boolean array of the padded  *)
(* shape (each extent + 2*width) that is True exactly at the ghost cells,  *)
(* the cells within width of the low or high boundary along at least one   *)
(* axis, and False at every interior cell.                                 *)
C20_MaskMarksGhostCells ==
    pad_mask.status # "pending" =>
        /\ pad_mask.status = "returned"
        /\ DOMAIN pad_mask.grid = PaddedIndices
        /\ \A x \in PaddedIndices : pad_mask.grid[x] = GhostCell(x)

\* What holds of the code when the call returns: the mask has the padded
\* shape, is False at every interior cell, and is True only in the block of
\* the first width rows and last width columns
MaskMarksOneCorner ==
    pad_mask.status = "returned" =>
        /\ DOMAIN pad_mask.grid = PaddedIndices
        /\ \A x \in PaddedIndices :
              pad_mask.grid[x] =>
                  /\ GhostCell(x)
                  /\ x[1] < PadWidth
                  /\ PadInputRank >= 2 => x[2] >= PadInputExtent(2) + PadWidth

-----------------------------------------------------------------------------
(* The kind of the exception that ended a call                             *)

\* The call whose result is given was made and ended with an exception
CallRaised(result) == result # None /\ result.status = "raised"

\* A call that raised reported its failure as a ValidationError
ReportedAsValidationError(result) ==
    CallRaised(result) => result.exception = "ValidationError"

(* C21.  Every contract violation of the grid operations is reported with  *)
(* the single error kind ValidationError and no other: unpad_grid on a     *)
(* grid whose rank is not 2 or 3, coarsen_grid with a wrong-rank or zero   *)
(* block size or an unknown method, a custom flatten reduction that fails  *)
(* or returns a non-scalar, invalid dip parameters, and every saturation   *)
(* input violation.                                                        *)
C21_SingleErrorKind ==
    /\ ReportedAsValidationError(unpadded)
    /\ ReportedAsValidationError(coarsenResult)
    /\ ReportedAsValidationError(flattenResult)
    /\ ReportedAsValidationError(dipResult)
    /\ ReportedAsValidationError(satResult)

\* The part of C21 that holds: the failures of coarsen_grid on a block size
\* of the wrong length or an unknown method, of a custom reduction, of the
\* dip parameters and of the saturation inputs are ValidationErrors
ValidationErrorWhereRaisedExplicitly ==
    /\ (CallRaised(coarsenResult) /\ 0 \notin {coarsenArgs.batch_size[d] :
                                                d \in DOMAIN coarsenArgs.batch_size})
            => coarsenResult.exception = "ValidationError"
    /\ ReportedAsValidationError(flattenResult)
    /\ ReportedAsValidationError(dipResult)
    /\ ReportedAsValidationError(satResult)

-----------------------------------------------------------------------------
(* Caller-supplied arrays                                                  *)

\* A call of apply_structural_dip returned a grid that differs from the one
\* it was given: its kernel subtracted or added an offset in place
DipChangedItsCopy ==
    /\ dipResult # None
    /\ dipResult.status = "returned"
    /\ \E x \in DOMAIN dipResult.grid : dipResult.grid[x] # dipArgs.elevation_grid[x]

(* C22.  No grid operation changes a caller-supplied array: in every step  *)
(* in which build_saturation_grids, apply_structural_dip, coarsen_grid,    *)
(* coarsen_permeability_grids (with or without padding), pad_grid,         *)
(* layered_grid or flatten_multilayer_grid_to_surface returns or raises,   *)
(* every argument holds after the step what it held before it.             *)
C22_InputsUnchanged ==
    [][/\ satArgs' = satArgs
       /\ dipArgs' = dipArgs
       /\ coarsenArgs' = coarsenArgs
       /\ permArgs' = permArgs
       /\ padArgs' = padArgs
       /\ layeredArgs' = layeredArgs
       /\ flattenArgs' = flattenArgs]_vars

C22_Witness == DipChangedItsCopy

-----------------------------------------------------------------------------
(* Transition mode against sharp-contact mode                              *)

\* What the same call gives in sharp-contact mode
SharpContactResult ==
    build_saturation_grids([satArgs EXCEPT !.use_transition_zones = FALSE])

\* The depth of cell c lies in neither [GOC - h_go/2, GOC + h_go/2] nor
\* [OWC - h_ow/2, OWC + h_ow/2]
OutsideBothBands(c) ==
    /\ RLt(Depth(c), GoBandTop) \/ RGt(Depth(c), GoBandBottom)
    /\ RLt(Depth(c), OwBandTop) \/ RGt(Depth(c), OwBandBottom)

(* C23.  Transition mode refines sharp-contact mode: for the same valid    *)
(* inputs, every active cell whose depth lies outside both bands           *)
(* [GOC - h_go/2, GOC + h_go/2] and [OWC - h_ow/2, OWC + h_ow/2] receives  *)
(* exactly the (Sw, So, Sg) that sharp-contact mode gives that cell.       *)
C23_TransitionRefinesSharp ==
    (SatReturned /\ Transition) =>
        /\ SharpContactResult.status = "returned"
        /\ \A c \in SatCells :
              (ActiveCell(c) /\ OutsideBothBands(c)) =>
                  Is(c, SharpContactResult.grids.water_saturation[c],
                        SharpContactResult.grids.oil_saturation[c],
                        SharpContactResult.grids.gas_saturation[c])

\* A transition-mode call returned with an active cell below the oil-water
\* band, where the water-zone values are not the initial zeros
C23_Witness ==
    /\ SatReturned /\ Transition
    /\ \E c \in SatCells : /\ ActiveCell(c) /\ RGt(Depth(c), OwBandBottom)
                           /\ ~Is(c, Zero, Zero, Zero)

-----------------------------------------------------------------------------
(* Elapsed time of a ModelState                                            *)

StateTime == modelState.time
DaysRead == elapsed.time_in_days # None
WeeksRead == elapsed.time_in_weeks # None
YearsRead == elapsed.time_in_years # None
\* time / 86400
TimeOver86400 == QDivDay(StateTime)
\* 604800 seconds: 7 * 86400
OneWeekOfSeconds == Q(R(7, 1), 1)

(* C24.  The elapsed-time properties of ModelState are consistent unit     *)
(* conversions of the time field (seconds): time_in_days = time/86400,     *)
(* time_in_weeks = time_in_days/7 and time_in_years =                      *)
(* time_in_days/DAYS_PER_YEAR, so a state at 604800 seconds reports 7 days *)
(* and 1 week.                                                             *)
C24_ElapsedTimeConversions ==
    /\ DaysRead => elapsed.time_in_days = TimeOver86400
    /\ WeeksRead => elapsed.time_in_weeks = QDiv(TimeOver86400, R(7, 1))
    /\ YearsRead =>
          elapsed.time_in_years = QDiv(TimeOver86400, modelState.c.DAYS_PER_YEAR)
    /\ StateTime = OneWeekOfSeconds =>
          /\ DaysRead => elapsed.time_in_days = Q(R(7, 1), 0)
          /\ WeeksRead => elapsed.time_in_weeks = Q(One, 0)

\* The part of C24 that holds: time_in_days is time / 86400, 7 days at
\* 604800 seconds, and for a time of 0 the three properties are 0
DaysAreSecondsOver86400 ==
    /\ DaysRead => elapsed.time_in_days = TimeOver86400
    /\ (DaysRead /\ StateTime = OneWeekOfSeconds) =>
          elapsed.time_in_days = Q(R(7, 1), 0)
    /\ (WeeksRead /\ StateTime = Q(Zero, 0)) => elapsed.time_in_weeks = Q(Zero, 0)
    /\ (YearsRead /\ StateTime = Q(Zero, 0)) => elapsed.time_in_years = Q(Zero, 0)

\* What time_in_weeks and time_in_years return: time_in_days / 7 and
\* time_in_days / DAYS_PER_YEAR, times 86400 * 86400
WeeksAndYearsTimesDaySquared ==
    /\ WeeksRead =>
          elapsed.time_in_weeks = QMulDay(QMulDay(QDiv(TimeOver86400, R(7, 1))))
    /\ YearsRead =>
          elapsed.time_in_years =
              QMulDay(QMulDay(QDiv(TimeOver86400, modelState.c.DAYS_PER_YEAR)))

-----------------------------------------------------------------------------
(* validate_state: what the caller observes                                *)

ValidatedState == validateArgs.state
ValidateDone == validateResult.status # "pending"
ValidateRaised ==
    validateResult.status = "raised" /\ validateResult.exception = "ValidationError"
DtypeIsNone == validateArgs.dtype = "None"

\* The values a record holds
Values(record) == {record[f] : f \in DOMAIN record}

\* The grids of the containers of the state and of its model's fluid and rock
\* properties
ContainerGrids ==
    {v \in {ValidatedState.model.thickness_grid}
              \cup Values(ValidatedState.model.fluid_properties)
              \cup Values(ValidatedState.model.rock_properties)
              \cup Values(ValidatedState.injection)
              \cup Values(ValidatedState.production)
              \cup Values(ValidatedState.relative_permeabilities)
              \cup Values(ValidatedState.relative_mobilities)
              \cup Values(ValidatedState.capillary_pressures) :
        v.type = "ndarray"}

\* The directional permeability grids and the saturation-history grids
NestedGrids ==
    {ValidatedState.model.rock_properties.absolute_permeability.x,
     ValidatedState.model.rock_properties.absolute_permeability.y,
     ValidatedState.model.rock_properties.absolute_permeability.z}
        \cup Values(ValidatedState.model.saturation_history)

HasOtherShape(grid) == grid.shape # ValidatedState.model.grid_shape

(* C25.  validate_state raises ValidationError whenever any grid of the    *)
(* state has a shape different from model.grid_shape, including the        *)
(* directional permeability grids x, y, z and the saturation-history       *)
(* grids, and does so whether dtype is None or given; when every shape     *)
(* matches and dtype is None it returns the state it was given.            *)
C25_RejectsEveryShapeMismatch ==
    ValidateDone =>
        /\ (\E grid \in ContainerGrids \cup NestedGrids : HasOtherShape(grid))
              => ValidateRaised
        /\ ((\A grid \in ContainerGrids \cup NestedGrids : ~HasOtherShape(grid))
                /\ DtypeIsNone)
              => /\ validateResult.status = "returned"
                 /\ validateResult.is_argument
                 /\ validateResult.state = ValidatedState

\* The part of C25 that holds: a grid of a container with another shape is
\* rejected with or without a dtype, a permeability or saturation-history
\* grid with another shape is rejected when a dtype is given, and a state
\* whose shapes all match is returned as it is when dtype is None
RejectsShapeMismatchItLooksAt ==
    ValidateDone =>
        /\ (\E grid \in ContainerGrids : HasOtherShape(grid)) => ValidateRaised
        /\ ((\E grid \in NestedGrids : HasOtherShape(grid)) /\ ~DtypeIsNone)
              => ValidateRaised
        /\ ((\A grid \in ContainerGrids \cup NestedGrids : ~HasOtherShape(grid))
                /\ DtypeIsNone)
              => /\ validateResult.status = "returned"
                 /\ validateResult.is_argument
                 /\ validateResult.state = ValidatedState

\* With dtype None a state is returned although a permeability or a
\* saturation-history grid has another shape than the model
NestedMismatchAccepted ==
    (ValidateDone /\ DtypeIsNone
        /\ \A grid \in ContainerGrids : ~HasOtherShape(grid))
        => validateResult.status = "returned" /\ validateResult.is_argument

-----------------------------------------------------------------------------
(* flatten_multilayer_grid_to_surface with a caller-supplied reduction     *)

CustomReduction == flattenArgs.strategy \in CustomReductions
FlattenDone == flattenResult.status # "pending"
\* The numbers of layers, rows and columns of a grid of rank 3
LayerCount == Cardinality({x[3] : x \in DOMAIN FlattenGrid})
SurfaceCells == {<<x[1], x[2]>> : x \in DOMAIN FlattenGrid}

\* grid[i, j, :] as the array of rank 1 the reduction is given
ColumnArray(c) == [x \in {<<k>> : k \in 0..(LayerCount - 1)} |-> FlattenGrid[<<c[1], c[2], x[1]>>]]

\* What the reduction returns for column c
OfColumn(c) == CallStrategy(flattenArgs.strategy, ColumnArray(c))
ScalarForEveryColumn ==
    \A c \in SurfaceCells : OfColumn(c).kind \in {"numpy_scalar", "python_scalar"}

\* The result holds f(grid[i, j, :]) for every column (i, j)
ReducedPerColumn ==
    /\ FlattenReturned
    /\ DOMAIN flattenResult.grid = SurfaceCells
    /\ \A c \in SurfaceCells : flattenResult.grid[c] = OfColumn(c).value

(* C26.  For a caller-supplied reduction f that returns a scalar when      *)
(* given one column, flatten_multilayer_grid_to_surface returns            *)
(* result[i,j] = f(grid[i,j,:]) for every column (i,j) and for every grid  *)
(* shape, including shapes with nz = nx*ny and reductions that return a    *)
(* plain scalar; a reduction that does not return a scalar for a column    *)
(* fails with ValidationError.                                             *)
C26_CustomReductionPerColumn ==
    (FlattenDone /\ CustomReduction /\ Rank(FlattenGrid) = 3) =>
        IF ScalarForEveryColumn
        THEN ReducedPerColumn
        ELSE FlattenRaised /\ flattenResult.exception = "ValidationError"

\* The reduction, given all columns at once as the rows of an array of rank
\* 2, returns an array that has one value per layer, not per column
OneValuePerLayer ==
    LET all == CallStrategy(flattenArgs.strategy, reshaped(FlattenGrid))
    IN  all.kind = "array" /\ flattenArgs.strategy = "lambda c: c[0]"

\* The part of C26 that holds: a reduction that returns a numpy scalar for a
\* column is applied per column unless, given all columns at once, it
\* returns one value per layer and the grid has as many layers as columns;
\* a reduction that raises or returns an array for a column fails with
\* ValidationError
CustomReductionPerColumnUnlessSquare ==
    (FlattenDone /\ CustomReduction /\ Rank(FlattenGrid) = 3) =>
        IF ~ScalarForEveryColumn
        THEN FlattenRaised /\ flattenResult.exception = "ValidationError"
        ELSE IF \E c \in SurfaceCells : OfColumn(c).kind = "python_scalar"
        THEN FlattenRaised /\ flattenResult.exception = "ValidationError"
        ELSE (OneValuePerLayer /\ LayerCount = Cardinality(SurfaceCells))
                \/ ReducedPerColumn

\* A reduction that returns a numpy scalar for every column, and a returned
\* surface that is not the reduction of its columns
ColumnsMixedUp ==
    /\ flattenArgs # None
    /\ FlattenDone /\ CustomReduction /\ Rank(FlattenGrid) = 3
    /\ \A c \in SurfaceCells : OfColumn(c).kind = "numpy_scalar"
    /\ FlattenReturned
    /\ ~ReducedPerColumn

-----------------------------------------------------------------------------
(* The registrar of make_serializable_type_registrar with override=False   *)

\* Some key bound before the step is bound to another class after it
Rebinding == \E k \in DOMAIN registry : registry'[k] # registry[k]

(* C27.  With override=False, for any sequence and any thread interleaving *)
(* of calls to a registrar made by make_serializable_type_registrar, a key *)
(* already bound in the registry is never rebound to a different class:    *)
(* the conflicting call raises ValidationError and leaves the registry     *)
(* unchanged.                                                              *)
C27_BoundKeyNeverRebound == [][~Rebinding]_vars

\* Two calls for unrelated classes of one key have both returned
BothRegistered ==
    \E t, u \in Threads :
        /\ thread[t].outcome = "returned" /\ thread[u].outcome = "returned"
        /\ thread[t].pc = "outside" /\ thread[u].pc = "outside"
        /\ thread[t].key = thread[u].key
        /\ thread[t].cls \in {"Injector", "Producer"}
        /\ thread[u].cls \in {"Injector", "Producer"} \ {thread[t].cls}

\* What holds in every interleaving: a class is bound under its own key
\* only, every bound class is a Serializable, and one thread at a time is
\* inside the with block
BoundUnderOwnKey ==
    /\ \A k \in DOMAIN registry :
            /\ registry[k] \in {"Injector", "Producer", "SmartInjector", "Aquifer"}
            /\ k = IF registry[k] = "Aquifer" THEN "aquifer" ELSE "injector"
    /\ \A t, u \in Threads :
            (thread[t].pc \in {"write", "release"} /\ thread[u].pc \in {"write", "release"})
                => t = u

\* What holds in every interleaving: a call that raises leaves the registry
\* as it is
RaisingCallLeavesRegistry ==
    [][(\E t \in Threads : thread'[t].outcome = "ValidationError" /\ thread'[t] # thread[t])
            => registry' = registry]_vars

\* A call that found its key bound to a class of which its own is not a
\* subclass raises
ConflictSeenIsRaised ==
    [][\A t \in Threads :
            (/\ thread[t].pc = "check"
             /\ thread'[t] # thread[t]
             /\ thread[t].key \in DOMAIN registry
             /\ registry[thread[t].key] = "Producer"
             /\ thread[t].cls \in {"Injector", "SmartInjector"})
                => thread'[t].outcome = "ValidationError"]_vars

-----------------------------------------------------------------------------
(* The five zones of transition mode                                       *)

\* The zone masks the call computes, by name
ZoneMasks ==
    LET active == active_mask(satArgs.porosity_grid)
    IN  [gas_cap        |-> gas_cap(satArgs, active),
         gas_oil_zone   |-> gas_oil_zone(satArgs, active),
         oil_zone       |-> oil_zone(satArgs, active),
         oil_water_zone |-> oil_water_zone(satArgs, active),
         water_zone     |-> water_zone(satArgs, active)]

\* The zones cell c belongs to
ZonesOf(c) == {z \in DOMAIN ZoneMasks : ZoneMasks[z][c]}

\* Where the depth of cell c puts it
PlaceOf(c) ==
    IF RLt(Depth(c), GoBandTop) THEN "gas_cap"
    ELSE IF RLe(Depth(c), GoBandBottom) THEN "gas_oil_zone"
    ELSE IF RLt(Depth(c), OwBandTop) THEN "oil_zone"
    ELSE IF RLe(Depth(c), OwBandBottom) THEN "oil_water_zone"
    ELSE "water_zone"

-----------------------------------------------------------------------------
(* Depth and elevation of a cell centre against the column thickness       *)

\* The sum of the thicknesses of layers 0..n-1 of the column of cell x
RECURSIVE ThicknessAbove(_, _)
ThicknessAbove(x, n) ==
    IF n = 0 THEN Zero
    ELSE RAdd(ThicknessAbove(x, n - 1), thickness_grid[<<x[1], x[2], n - 1>>])

\* The total thickness of the column of cell x
ColumnThickness(x) == ThicknessAbove(x, LastLayer + 1)

(* C29.  For any thickness grid, any column (i,j) and any layer k,         *)
(* build_depth_grid(t)[i,j,k] + build_elevation_grid(t)[i,j,k] equals the  *)
(* total thickness of that column (the sum of t[i,j,:]), and depth[i,j,k]  *)
(* equals the sum of the thicknesses of layers 0..k-1 plus half of         *)
(* t[i,j,k].                                                               *)
C29_DepthPlusElevationIsColumnThickness ==
    /\ BothBuilt =>
          \A x \in DOMAIN thickness_grid :
              RAdd(depth_out[x], elevation_out[x]) = ColumnThickness(x)
    /\ depth_out # None =>
          \A x \in DOMAIN thickness_grid :
              depth_out[x] = RAdd(ThicknessAbove(x, x[3]),
                                  RDiv(thickness_grid[x], R(2, 1)))

\* Both grids are built from a column of three layers, the middle one
\* thicker than the top one and the bottom one not empty
C29_Witness ==
    /\ BothBuilt
    /\ LastLayer = 2
    /\ \E x \in DOMAIN thickness_grid :
          /\ x[3] = 1
          /\ RGt(thickness_grid[x], thickness_grid[<<x[1], x[2], 0>>])
          /\ RGt(thickness_grid[<<x[1], x[2], 0>>], Zero)
          /\ RGt(thickness_grid[<<x[1], x[2], 2>>], Zero)

-----------------------------------------------------------------------------
(* weighted_mean with ignore_nan=True and NaN values                       *)

\* The layers of column c whose value is a number
NumberLayers(c) == {x \in Layers(c) : FlattenGrid[x] # NaN}

\* The sum of w * x over the layers of column c whose value is a number
ProductSum(c) ==
    SumOver([x \in NumberLayers(c) |-> RMul(FlattenWeightGrid[x], FlattenGrid[x])],
            NumberLayers(c))

\* A weighted mean with ignore_nan=True returned for weights that are numbers
NanAwareWeightedMean ==
    /\ flattenArgs # None
    /\ WeightedMean /\ flattenArgs.ignore_nan /\ FlattenReturned
    /\ \A x \in DOMAIN FlattenWeightGrid : FlattenWeightGrid[x] # NaN

(* C30.  With strategy 'weighted_mean' and ignore_nan=True, a layer whose  *)
(* value is NaN is left out of both the numerator and the denominator, so  *)
(* the result for a column is the weighted mean of its non-NaN layers (a   *)
(* column with values [4, NaN] and weights [1, 1] gives 4).                *)
C30_NanLayersLeftOut ==
    NanAwareWeightedMean =>
        \A c \in DOMAIN flattenResult.grid :
            SumOver(FlattenWeightGrid, NumberLayers(c)) # Zero =>
                flattenResult.grid[c]
                    = RDiv(ProductSum(c), SumOver(FlattenWeightGrid, NumberLayers(c)))

\* What the call returns: a layer whose value is NaN is left out of the
\* numerator only, its weight stays in the denominator
NanLayersLeftOutOfNumerator ==
    NanAwareWeightedMean =>
        \A c \in DOMAIN flattenResult.grid :
            flattenResult.grid[c]
                = IF WeightSum(c) = Zero THEN NaN
                  ELSE RDiv(ProductSum(c), WeightSum(c))

\* The column of the example: values [4, NaN] under weights [1, 1] gives 2
FourAndNaNGivesTwo ==
    /\ NanAwareWeightedMean
    /\ \E c \in DOMAIN flattenResult.grid :
          /\ FlattenGrid[<<c[1], c[2], 0>>] = R(4, 1)
          /\ FlattenGrid[<<c[1], c[2], 1>>] = NaN
          /\ Layers(c) = {<<c[1], c[2], 0>>, <<c[1], c[2], 1>>}
          /\ \A x \in Layers(c) : FlattenWeightGrid[x] = One
          /\ flattenResult.grid[c] = R(2, 1)

=============================================================================
